---------------------------- MODULE Spec2Model ----------------------------
(***************************************************************************)
(* A model of the codecs of httpenergy: the HPACK and QPACK dynamic        *)
(* tables, the HPACK instruction decoder, the HEADERS/CONTINUATION         *)
(* fragmentation helper, and the HTTP/1.1 textual parser.  Bytes are the   *)
(* integers 0..255, byte strings are sequences of bytes.                   *)
(***************************************************************************)
EXTENDS Integers, Sequences, FiniteSets, TLC

VARIABLES
    \* h2/hpack/index.rs  IndexingTables(usize, VecDeque<(Vec<u8>, Vec<u8>)>)
    hpCapacity,     \* IndexingTables.0
    hpEntries,      \* IndexingTables.1, front of the deque first
    hpHistory,      \* history variable: every entry ever added, newest first
    \* h3/qpack/index.rs  DynamicTable
    qpCapacity,     \* DynamicTable.capacity
    qpAbsolute,     \* DynamicTable.absolute
    qpAdds,         \* history: the number of DynamicTable::add calls made
    qpBuffer,       \* DynamicTable.buffer, front of the deque first
    tblOps          \* number of table operations performed so far

tblVars == <<hpCapacity, hpEntries, hpHistory, qpCapacity, qpAbsolute, qpAdds, qpBuffer, tblOps>>

-----------------------------------------------------------------------------
(* Helpers over byte strings.                                              *)

\* Option<T>: None, or Some(x) holding x
None == <<>>

Some(x) == <<x>>

Unwrap(o) == o[1]

Min(a, b) == IF a < b THEN a ELSE b



DropLast(s) == SubSeq(s, 1, Len(s) - 1)

-----------------------------------------------------------------------------
(* HPACK static table: h2/hpack/index.rs                                   *)

STATIC_TABLE_LEN == 61

STATIC_TABLE ==
  << <<<<58, 97, 117, 116, 104, 111, 114, 105, 116, 121>>, <<>>>>,
     <<<<58, 109, 101, 116, 104, 111, 100>>, <<71, 69, 84>>>>,
     <<<<58, 109, 101, 116, 104, 111, 100>>, <<80, 79, 83, 84>>>>,
     <<<<58, 112, 97, 116, 104>>, <<47>>>>,
     <<<<58, 112, 97, 116, 104>>, <<47, 105, 110, 100, 101, 120, 46, 104, 116, 109, 108>>>>,
     <<<<58, 115, 99, 104, 101, 109, 101>>, <<104, 116, 116, 112>>>>,
     <<<<58, 115, 99, 104, 101, 109, 101>>, <<104, 116, 116, 112, 115>>>>,
     <<<<58, 115, 116, 97, 116, 117, 115>>, <<50, 48, 48>>>>,
     <<<<58, 115, 116, 97, 116, 117, 115>>, <<50, 48, 52>>>>,
     <<<<58, 115, 116, 97, 116, 117, 115>>, <<50, 48, 54>>>>,
     <<<<58, 115, 116, 97, 116, 117, 115>>, <<51, 48, 52>>>>,
     <<<<58, 115, 116, 97, 116, 117, 115>>, <<52, 48, 48>>>>,
     <<<<58, 115, 116, 97, 116, 117, 115>>, <<52, 48, 52>>>>,
     <<<<58, 115, 116, 97, 116, 117, 115>>, <<53, 48, 48>>>>,
     <<<<97, 99, 99, 101, 112, 116, 45, 99, 104, 97, 114, 115, 101, 116>>, <<>>>>,
     <<<<97, 99, 99, 101, 112, 116, 45, 101, 110, 99, 111, 100, 105, 110, 103>>, <<103, 122, 105, 112, 44, 32, 100, 101, 102, 108, 97, 116, 101>>>>,
     <<<<97, 99, 99, 101, 112, 116, 45, 108, 97, 110, 103, 117, 97, 103, 101>>, <<>>>>,
     <<<<97, 99, 99, 101, 112, 116, 45, 114, 97, 110, 103, 101, 115>>, <<>>>>,
     <<<<97, 99, 99, 101, 112, 116>>, <<>>>>,
     <<<<97, 99, 99, 101, 115, 115, 45, 99, 111, 110, 116, 114, 111, 108, 45, 97, 108, 108, 111, 119, 45, 111, 114, 105, 103, 105, 110>>, <<>>>>,
     <<<<97, 103, 101>>, <<>>>>,
     <<<<97, 108, 108, 111, 119>>, <<>>>>,
     <<<<97, 117, 116, 104, 111, 114, 105, 122, 97, 116, 105, 111, 110>>, <<>>>>,
     <<<<99, 97, 99, 104, 101, 45, 99, 111, 110, 116, 114, 111, 108>>, <<>>>>,
     <<<<99, 111, 110, 116, 101, 110, 116, 45, 100, 105, 115, 112, 111, 115, 105, 116, 105, 111, 110>>, <<>>>>,
     <<<<99, 111, 110, 116, 101, 110, 116, 45, 101, 110, 99, 111, 100, 105, 110, 103>>, <<>>>>,
     <<<<99, 111, 110, 116, 101, 110, 116, 45, 108, 97, 110, 103, 117, 97, 103, 101>>, <<>>>>,
     <<<<99, 111, 110, 116, 101, 110, 116, 45, 108, 101, 110, 103, 116, 104>>, <<>>>>,
     <<<<99, 111, 110, 116, 101, 110, 116, 45, 108, 111, 99, 97, 116, 105, 111, 110>>, <<>>>>,
     <<<<99, 111, 110, 116, 101, 110, 116, 45, 114, 97, 110, 103, 101>>, <<>>>>,
     <<<<99, 111, 110, 116, 101, 110, 116, 45, 116, 121, 112, 101>>, <<>>>>,
     <<<<99, 111, 111, 107, 105, 101>>, <<>>>>,
     <<<<100, 97, 116, 101>>, <<>>>>,
     <<<<101, 116, 97, 103>>, <<>>>>,
     <<<<101, 120, 112, 101, 99, 116>>, <<>>>>,
     <<<<101, 120, 112, 105, 114, 101, 115>>, <<>>>>,
     <<<<102, 114, 111, 109>>, <<>>>>,
     <<<<104, 111, 115, 116>>, <<>>>>,
     <<<<105, 102, 45, 109, 97, 116, 99, 104>>, <<>>>>,
     <<<<105, 102, 45, 109, 111, 100, 105, 102, 105, 101, 100, 45, 115, 105, 110, 99, 101>>, <<>>>>,
     <<<<105, 102, 45, 110, 111, 110, 101, 45, 109, 97, 116, 99, 104>>, <<>>>>,
     <<<<105, 102, 45, 114, 97, 110, 103, 101>>, <<>>>>,
     <<<<105, 102, 45, 117, 110, 109, 111, 100, 105, 102, 105, 101, 100, 45, 115, 105, 110, 99, 101>>, <<>>>>,
     <<<<108, 97, 115, 116, 45, 109, 111, 100, 105, 102, 105, 101, 100>>, <<>>>>,
     <<<<108, 105, 110, 107>>, <<>>>>,
     <<<<108, 111, 99, 97, 116, 105, 111, 110>>, <<>>>>,
     <<<<109, 97, 120, 45, 102, 111, 114, 119, 97, 114, 100, 115>>, <<>>>>,
     <<<<112, 114, 111, 120, 121, 45, 97, 117, 116, 104, 101, 110, 116, 105, 99, 97, 116, 101>>, <<>>>>,
     <<<<112, 114, 111, 120, 121, 45, 97, 117, 116, 104, 111, 114, 105, 122, 97, 116, 105, 111, 110>>, <<>>>>,
     <<<<114, 97, 110, 103, 101>>, <<>>>>,
     <<<<114, 101, 102, 101, 114, 101, 114>>, <<>>>>,
     <<<<114, 101, 102, 114, 101, 115, 104>>, <<>>>>,
     <<<<114, 101, 116, 114, 121, 45, 97, 102, 116, 101, 114>>, <<>>>>,
     <<<<115, 101, 114, 118, 101, 114>>, <<>>>>,
     <<<<115, 101, 116, 45, 99, 111, 111, 107, 105, 101>>, <<>>>>,
     <<<<115, 116, 114, 105, 99, 116, 45, 116, 114, 97, 110, 115, 112, 111, 114, 116, 45, 115, 101, 99, 117, 114, 105, 116, 121>>, <<>>>>,
     <<<<116, 114, 97, 110, 115, 102, 101, 114, 45, 101, 110, 99, 111, 100, 105, 110, 103>>, <<>>>>,
     <<<<117, 115, 101, 114, 45, 97, 103, 101, 110, 116>>, <<>>>>,
     <<<<118, 97, 114, 121>>, <<>>>>,
     <<<<118, 105, 97>>, <<>>>>,
     <<<<119, 119, 119, 45, 97, 117, 116, 104, 101, 110, 116, 105, 99, 97, 116, 101>>, <<>>>> >>
-----------------------------------------------------------------------------
(* The QPACK static table: h3/qpack/index.rs.  Its indexes start at 0.      *)

QP_STATIC_TABLE_LEN == 99

QP_STATIC_TABLE ==
  << <<<<58, 97, 117, 116, 104, 111, 114, 105, 116, 121>>, <<>>>>,
     <<<<58, 112, 97, 116, 104>>, <<47>>>>,
     <<<<97, 103, 101>>, <<48>>>>,
     <<<<99, 111, 110, 116, 101, 110, 116, 45, 100, 105, 115, 112, 111, 115, 105, 116, 105, 111, 110>>, <<>>>>,
     <<<<99, 111, 110, 116, 101, 110, 116, 45, 108, 101, 110, 103, 116, 104>>, <<48>>>>,
     <<<<99, 111, 111, 107, 105, 101>>, <<>>>>,
     <<<<100, 97, 116, 101>>, <<>>>>,
     <<<<101, 116, 97, 103>>, <<>>>>,
     <<<<105, 102, 45, 109, 111, 100, 105, 102, 105, 101, 100, 45, 115, 105, 110, 99, 101>>, <<>>>>,
     <<<<105, 102, 45, 110, 111, 110, 101, 45, 109, 97, 116, 99, 104>>, <<>>>>,
     <<<<108, 97, 115, 116, 45, 109, 111, 100, 105, 102, 105, 101, 100>>, <<>>>>,
     <<<<108, 105, 110, 107>>, <<>>>>,
     <<<<108, 111, 99, 97, 116, 105, 111, 110>>, <<>>>>,
     <<<<114, 101, 102, 101, 114, 101, 114>>, <<>>>>,
     <<<<115, 101, 116, 45, 99, 111, 111, 107, 105, 101>>, <<>>>>,
     <<<<58, 109, 101, 116, 104, 111, 100>>, <<67, 79, 78, 78, 69, 67, 84>>>>,
     <<<<58, 109, 101, 116, 104, 111, 100>>, <<68, 69, 76, 69, 84, 69>>>>,
     <<<<58, 109, 101, 116, 104, 111, 100>>, <<71, 69, 84>>>>,
     <<<<58, 109, 101, 116, 104, 111, 100>>, <<72, 69, 65, 68>>>>,
     <<<<58, 109, 101, 116, 104, 111, 100>>, <<79, 80, 84, 73, 79, 78, 83>>>>,
     <<<<58, 109, 101, 116, 104, 111, 100>>, <<80, 79, 83, 84>>>>,
     <<<<58, 109, 101, 116, 104, 111, 100>>, <<80, 85, 84>>>>,
     <<<<58, 115, 99, 104, 101, 109, 101>>, <<104, 116, 116, 112>>>>,
     <<<<58, 115, 99, 104, 101, 109, 101>>, <<104, 116, 116, 112, 115>>>>,
     <<<<58, 115, 116, 97, 116, 117, 115>>, <<49, 48, 51>>>>,
     <<<<58, 115, 116, 97, 116, 117, 115>>, <<50, 48, 48>>>>,
     <<<<58, 115, 116, 97, 116, 117, 115>>, <<51, 48, 52>>>>,
     <<<<58, 115, 116, 97, 116, 117, 115>>, <<52, 48, 52>>>>,
     <<<<58, 115, 116, 97, 116, 117, 115>>, <<53, 48, 51>>>>,
     <<<<97, 99, 99, 101, 112, 116>>, <<42, 47, 42>>>>,
     <<<<97, 99, 99, 101, 112, 116>>, <<97, 112, 112, 108, 105, 99, 97, 116, 105, 111, 110, 47, 100, 110, 115, 45, 109, 101, 115, 115, 97, 103, 101>>>>,
     <<<<97, 99, 99, 101, 112, 116, 45, 101, 110, 99, 111, 100, 105, 110, 103>>, <<103, 122, 105, 112, 44, 32, 100, 101, 102, 108, 97, 116, 101, 44, 32, 98, 114>>>>,
     <<<<97, 99, 99, 101, 112, 116, 45, 114, 97, 110, 103, 101, 115>>, <<98, 121, 116, 101, 115>>>>,
     <<<<97, 99, 99, 101, 115, 115, 45, 99, 111, 110, 116, 114, 111, 108, 45, 97, 108, 108, 111, 119, 45, 104, 101, 97, 100, 101, 114, 115>>, <<99, 97, 99, 104, 101, 45, 99, 111, 110, 116, 114, 111, 108>>>>,
     <<<<97, 99, 99, 101, 115, 115, 45, 99, 111, 110, 116, 114, 111, 108, 45, 97, 108, 108, 111, 119, 45, 104, 101, 97, 100, 101, 114, 115>>, <<99, 111, 110, 116, 101, 110, 116, 45, 116, 121, 112, 101>>>>,
     <<<<97, 99, 99, 101, 115, 115, 45, 99, 111, 110, 116, 114, 111, 108, 45, 97, 108, 108, 111, 119, 45, 111, 114, 105, 103, 105, 110>>, <<42>>>>,
     <<<<99, 97, 99, 104, 101, 45, 99, 111, 110, 116, 114, 111, 108>>, <<109, 97, 120, 45, 97, 103, 101, 61, 48>>>>,
     <<<<99, 97, 99, 104, 101, 45, 99, 111, 110, 116, 114, 111, 108>>, <<109, 97, 120, 45, 97, 103, 101, 61, 50, 53, 57, 50, 48, 48, 48>>>>,
     <<<<99, 97, 99, 104, 101, 45, 99, 111, 110, 116, 114, 111, 108>>, <<109, 97, 120, 45, 97, 103, 101, 61, 54, 48, 52, 56, 48, 48>>>>,
     <<<<99, 97, 99, 104, 101, 45, 99, 111, 110, 116, 114, 111, 108>>, <<110, 111, 45, 99, 97, 99, 104, 101>>>>,
     <<<<99, 97, 99, 104, 101, 45, 99, 111, 110, 116, 114, 111, 108>>, <<110, 111, 45, 115, 116, 111, 114, 101>>>>,
     <<<<99, 97, 99, 104, 101, 45, 99, 111, 110, 116, 114, 111, 108>>, <<112, 117, 98, 108, 105, 99, 44, 32, 109, 97, 120, 45, 97, 103, 101, 61, 51, 49, 53, 51, 54, 48, 48, 48>>>>,
     <<<<99, 111, 110, 116, 101, 110, 116, 45, 101, 110, 99, 111, 100, 105, 110, 103>>, <<98, 114>>>>,
     <<<<99, 111, 110, 116, 101, 110, 116, 45, 101, 110, 99, 111, 100, 105, 110, 103>>, <<103, 122, 105, 112>>>>,
     <<<<99, 111, 110, 116, 101, 110, 116, 45, 116, 121, 112, 101>>, <<97, 112, 112, 108, 105, 99, 97, 116, 105, 111, 110, 47, 100, 110, 115, 45, 109, 101, 115, 115, 97, 103, 101>>>>,
     <<<<99, 111, 110, 116, 101, 110, 116, 45, 116, 121, 112, 101>>, <<97, 112, 112, 108, 105, 99, 97, 116, 105, 111, 110, 47, 106, 97, 118, 97, 115, 99, 114, 105, 112, 116>>>>,
     <<<<99, 111, 110, 116, 101, 110, 116, 45, 116, 121, 112, 101>>, <<97, 112, 112, 108, 105, 99, 97, 116, 105, 111, 110, 47, 106, 115, 111, 110>>>>,
     <<<<99, 111, 110, 116, 101, 110, 116, 45, 116, 121, 112, 101>>, <<97, 112, 112, 108, 105, 99, 97, 116, 105, 111, 110, 47, 120, 45, 119, 119, 119, 45, 102, 111, 114, 109, 45, 117, 114, 108, 101, 110, 99, 111, 100, 101, 100>>>>,
     <<<<99, 111, 110, 116, 101, 110, 116, 45, 116, 121, 112, 101>>, <<105, 109, 97, 103, 101, 47, 103, 105, 102>>>>,
     <<<<99, 111, 110, 116, 101, 110, 116, 45, 116, 121, 112, 101>>, <<105, 109, 97, 103, 101, 47, 106, 112, 101, 103>>>>,
     <<<<99, 111, 110, 116, 101, 110, 116, 45, 116, 121, 112, 101>>, <<105, 109, 97, 103, 101, 47, 112, 110, 103>>>>,
     <<<<99, 111, 110, 116, 101, 110, 116, 45, 116, 121, 112, 101>>, <<116, 101, 120, 116, 47, 99, 115, 115>>>>,
     <<<<99, 111, 110, 116, 101, 110, 116, 45, 116, 121, 112, 101>>, <<116, 101, 120, 116, 47, 104, 116, 109, 108, 59, 32, 99, 104, 97, 114, 115, 101, 116, 61, 117, 116, 102, 45, 56>>>>,
     <<<<99, 111, 110, 116, 101, 110, 116, 45, 116, 121, 112, 101>>, <<116, 101, 120, 116, 47, 112, 108, 97, 105, 110>>>>,
     <<<<99, 111, 110, 116, 101, 110, 116, 45, 116, 121, 112, 101>>, <<116, 101, 120, 116, 47, 112, 108, 97, 105, 110, 59, 99, 104, 97, 114, 115, 101, 116, 61, 117, 116, 102, 45, 56>>>>,
     <<<<114, 97, 110, 103, 101>>, <<98, 121, 116, 101, 115, 61, 48, 45>>>>,
     <<<<115, 116, 114, 105, 99, 116, 45, 116, 114, 97, 110, 115, 112, 111, 114, 116, 45, 115, 101, 99, 117, 114, 105, 116, 121>>, <<109, 97, 120, 45, 97, 103, 101, 61, 51, 49, 53, 51, 54, 48, 48, 48>>>>,
     <<<<115, 116, 114, 105, 99, 116, 45, 116, 114, 97, 110, 115, 112, 111, 114, 116, 45, 115, 101, 99, 117, 114, 105, 116, 121>>, <<109, 97, 120, 45, 97, 103, 101, 61, 51, 49, 53, 51, 54, 48, 48, 48, 59, 32, 105, 110, 99, 108, 117, 100, 101, 115, 117, 98, 100, 111, 109, 97, 105, 110, 115>>>>,
     <<<<115, 116, 114, 105, 99, 116, 45, 116, 114, 97, 110, 115, 112, 111, 114, 116, 45, 115, 101, 99, 117, 114, 105, 116, 121>>, <<109, 97, 120, 45, 97, 103, 101, 61, 51, 49, 53, 51, 54, 48, 48, 48, 59, 32, 105, 110, 99, 108, 117, 100, 101, 115, 117, 98, 100, 111, 109, 97, 105, 110, 115, 59, 32, 112, 114, 101, 108, 111, 97, 100>>>>,
     <<<<118, 97, 114, 121>>, <<97, 99, 99, 101, 112, 116, 45, 101, 110, 99, 111, 100, 105, 110, 103>>>>,
     <<<<118, 97, 114, 121>>, <<111, 114, 105, 103, 105, 110>>>>,
     <<<<120, 45, 99, 111, 110, 116, 101, 110, 116, 45, 116, 121, 112, 101, 45, 111, 112, 116, 105, 111, 110, 115>>, <<110, 111, 115, 110, 105, 102, 102>>>>,
     <<<<120, 45, 120, 115, 115, 45, 112, 114, 111, 116, 101, 99, 116, 105, 111, 110>>, <<49, 59, 32, 109, 111, 100, 101, 61, 98, 108, 111, 99, 107>>>>,
     <<<<58, 115, 116, 97, 116, 117, 115>>, <<49, 48, 48>>>>,
     <<<<58, 115, 116, 97, 116, 117, 115>>, <<50, 48, 52>>>>,
     <<<<58, 115, 116, 97, 116, 117, 115>>, <<50, 48, 54>>>>,
     <<<<58, 115, 116, 97, 116, 117, 115>>, <<51, 48, 50>>>>,
     <<<<58, 115, 116, 97, 116, 117, 115>>, <<52, 48, 48>>>>,
     <<<<58, 115, 116, 97, 116, 117, 115>>, <<52, 48, 51>>>>,
     <<<<58, 115, 116, 97, 116, 117, 115>>, <<52, 50, 49>>>>,
     <<<<58, 115, 116, 97, 116, 117, 115>>, <<52, 50, 53>>>>,
     <<<<58, 115, 116, 97, 116, 117, 115>>, <<53, 48, 48>>>>,
     <<<<97, 99, 99, 101, 112, 116, 45, 108, 97, 110, 103, 117, 97, 103, 101>>, <<>>>>,
     <<<<97, 99, 99, 101, 115, 115, 45, 99, 111, 110, 116, 114, 111, 108, 45, 97, 108, 108, 111, 119, 45, 99, 114, 101, 100, 101, 110, 116, 105, 97, 108, 115>>, <<70, 65, 76, 83, 69>>>>,
     <<<<97, 99, 99, 101, 115, 115, 45, 99, 111, 110, 116, 114, 111, 108, 45, 97, 108, 108, 111, 119, 45, 99, 114, 101, 100, 101, 110, 116, 105, 97, 108, 115>>, <<84, 82, 85, 69>>>>,
     <<<<97, 99, 99, 101, 115, 115, 45, 99, 111, 110, 116, 114, 111, 108, 45, 97, 108, 108, 111, 119, 45, 104, 101, 97, 100, 101, 114, 115>>, <<42>>>>,
     <<<<97, 99, 99, 101, 115, 115, 45, 99, 111, 110, 116, 114, 111, 108, 45, 97, 108, 108, 111, 119, 45, 109, 101, 116, 104, 111, 100, 115>>, <<103, 101, 116>>>>,
     <<<<97, 99, 99, 101, 115, 115, 45, 99, 111, 110, 116, 114, 111, 108, 45, 97, 108, 108, 111, 119, 45, 109, 101, 116, 104, 111, 100, 115>>, <<103, 101, 116, 44, 32, 112, 111, 115, 116, 44, 32, 111, 112, 116, 105, 111, 110, 115>>>>,
     <<<<97, 99, 99, 101, 115, 115, 45, 99, 111, 110, 116, 114, 111, 108, 45, 97, 108, 108, 111, 119, 45, 109, 101, 116, 104, 111, 100, 115>>, <<111, 112, 116, 105, 111, 110, 115>>>>,
     <<<<97, 99, 99, 101, 115, 115, 45, 99, 111, 110, 116, 114, 111, 108, 45, 101, 120, 112, 111, 115, 101, 45, 104, 101, 97, 100, 101, 114, 115>>, <<99, 111, 110, 116, 101, 110, 116, 45, 108, 101, 110, 103, 116, 104>>>>,
     <<<<97, 99, 99, 101, 115, 115, 45, 99, 111, 110, 116, 114, 111, 108, 45, 114, 101, 113, 117, 101, 115, 116, 45, 104, 101, 97, 100, 101, 114, 115>>, <<99, 111, 110, 116, 101, 110, 116, 45, 116, 121, 112, 101>>>>,
     <<<<97, 99, 99, 101, 115, 115, 45, 99, 111, 110, 116, 114, 111, 108, 45, 114, 101, 113, 117, 101, 115, 116, 45, 109, 101, 116, 104, 111, 100>>, <<103, 101, 116>>>>,
     <<<<97, 99, 99, 101, 115, 115, 45, 99, 111, 110, 116, 114, 111, 108, 45, 114, 101, 113, 117, 101, 115, 116, 45, 109, 101, 116, 104, 111, 100>>, <<112, 111, 115, 116>>>>,
     <<<<97, 108, 116, 45, 115, 118, 99>>, <<99, 108, 101, 97, 114>>>>,
     <<<<97, 117, 116, 104, 111, 114, 105, 122, 97, 116, 105, 111, 110>>, <<>>>>,
     <<<<99, 111, 110, 116, 101, 110, 116, 45, 115, 101, 99, 117, 114, 105, 116, 121, 45, 112, 111, 108, 105, 99, 121>>, <<115, 99, 114, 105, 112, 116, 45, 115, 114, 99, 32, 39, 110, 111, 110, 101, 39, 59, 32, 111, 98, 106, 101, 99, 116, 45, 115, 114, 99, 32, 39, 110, 111, 110, 101, 39, 59, 32, 98, 97, 115, 101, 45, 117, 114, 105, 32, 39, 110, 111, 110, 101, 39>>>>,
     <<<<101, 97, 114, 108, 121, 45, 100, 97, 116, 97>>, <<49>>>>,
     <<<<101, 120, 112, 101, 99, 116, 45, 99, 116>>, <<>>>>,
     <<<<102, 111, 114, 119, 97, 114, 100, 101, 100>>, <<>>>>,
     <<<<105, 102, 45, 114, 97, 110, 103, 101>>, <<>>>>,
     <<<<111, 114, 105, 103, 105, 110>>, <<>>>>,
     <<<<112, 117, 114, 112, 111, 115, 101>>, <<112, 114, 101, 102, 101, 116, 99, 104>>>>,
     <<<<115, 101, 114, 118, 101, 114>>, <<>>>>,
     <<<<116, 105, 109, 105, 110, 103, 45, 97, 108, 108, 111, 119, 45, 111, 114, 105, 103, 105, 110>>, <<42>>>>,
     <<<<117, 112, 103, 114, 97, 100, 101, 45, 105, 110, 115, 101, 99, 117, 114, 101, 45, 114, 101, 113, 117, 101, 115, 116, 115>>, <<49>>>>,
     <<<<117, 115, 101, 114, 45, 97, 103, 101, 110, 116>>, <<>>>>,
     <<<<120, 45, 102, 111, 114, 119, 97, 114, 100, 101, 100, 45, 102, 111, 114>>, <<>>>>,
     <<<<120, 45, 102, 114, 97, 109, 101, 45, 111, 112, 116, 105, 111, 110, 115>>, <<100, 101, 110, 121>>>>,
     <<<<120, 45, 102, 114, 97, 109, 101, 45, 111, 112, 116, 105, 111, 110, 115>>, <<115, 97, 109, 101, 111, 114, 105, 103, 105, 110>>>> >>


-----------------------------------------------------------------------------
(* Dynamic tables: h2/hpack/index.rs and h3/qpack/index.rs                 *)

\* IndexingTables::new / DynamicTable::new
DEFAULT_CAPACITY == 4096

\* the per-entry overhead of size()
ENTRY_OVERHEAD == 32

\* Indices::size / DynamicIndices::size: sum of len(name) + len(value) + 32
RECURSIVE TableSize(_)
TableSize(entries) ==
    IF entries = <<>> THEN 0
    ELSE Len(Head(entries)[1]) + Len(Head(entries)[2]) + ENTRY_OVERHEAD + TableSize(Tail(entries))

\* a faulty eviction that drops one entry at most
EvictionOnce(capacity, entries) ==
    IF TableSize(entries) > capacity THEN DropLast(entries) ELSE entries

\* a faulty eviction that drops the newest entry instead of the oldest
RECURSIVE EvictionFront(_, _)
EvictionFront(capacity, entries) ==
    IF TableSize(entries) > capacity THEN EvictionFront(capacity, Tail(entries)) ELSE entries

\* Indices::eviction / DynamicIndices::eviction: pop_back while size() > capacity
RECURSIVE Eviction(_, _)
Eviction(capacity, entries) ==
    IF TableSize(entries) > capacity THEN Eviction(capacity, DropLast(entries)) ELSE entries

\* DynamicIndices::eviction of the QPACK table: pop_back while size() > capacity
RECURSIVE QpEviction(_, _)
QpEviction(capacity, buffer) ==
    IF TableSize(buffer) > capacity THEN QpEviction(capacity, DropLast(buffer)) ELSE buffer

\* IndexingTables::add: push_front, then eviction
HpAdd(capacity, entries, name, value) ==
    Eviction(capacity, <<<<name, value>>>> \o entries)

\* IndexingTables::size_update: set the capacity, then eviction
HpSizeUpdate(n, entries) ==
    Eviction(n, entries)

\* IndexingTables::get_entry over the combined index space
HpGetEntry(entries, n) ==
    IF n > 0 /\ n <= STATIC_TABLE_LEN THEN Some(STATIC_TABLE[n])
    ELSE IF n > STATIC_TABLE_LEN /\ n - STATIC_TABLE_LEN <= Len(entries)
         THEN Some(entries[n - STATIC_TABLE_LEN])
         ELSE None

\* Indices::get_name
HpGetName(entries, n) ==
    IF HpGetEntry(entries, n) = None THEN None ELSE Some(Unwrap(HpGetEntry(entries, n))[1])

\* DynamicTable::add: push_front, absolute += 1, eviction
QpAdd(capacity, buffer, name, value) ==
    QpEviction(capacity, <<<<name, value>>>> \o buffer)

\* DynamicTable::set_capacity
QpSetCapacity(n, buffer) ==
    QpEviction(n, buffer)

\* a faulty clear that also forgets the count of entries inserted
QpClear_reset_count(absolute, buffer) == [absolute |-> 0, buffer |-> <<>>]

\* DynamicTable::clear: the buffer is emptied, absolute and capacity stay
QpClear(absolute, buffer) == [absolute |-> absolute, buffer |-> <<>>]

(* Inputs of the table operations.                                         *)
MaxTblOps == 5

TblNames == { <<97>>, <<97, 98>> }

TblValues == { <<>>, <<120, 121, 122>> }

TblCapacities == { 0, 36, 70, 4096 }

InitTbl ==
    /\ hpCapacity = DEFAULT_CAPACITY
    /\ hpEntries = <<>>
    /\ hpHistory = <<>>
    /\ qpCapacity = DEFAULT_CAPACITY
    /\ qpAbsolute = 0
    /\ qpAdds = 0
    /\ qpBuffer = <<>>
    /\ tblOps = 0

HpAddStep ==
    /\ tblOps < MaxTblOps
    /\ \E name \in TblNames, value \in TblValues :
          /\ hpEntries' = HpAdd(hpCapacity, hpEntries, name, value)
          /\ hpHistory' = <<<<name, value>>>> \o hpHistory
    /\ tblOps' = tblOps + 1
    /\ UNCHANGED <<hpCapacity, qpCapacity, qpAbsolute, qpAdds, qpBuffer>>

HpSizeUpdateStep ==
    /\ tblOps < MaxTblOps
    /\ \E n \in TblCapacities :
          /\ hpCapacity' = n
          /\ hpEntries' = HpSizeUpdate(n, hpEntries)
    /\ tblOps' = tblOps + 1
    /\ UNCHANGED <<hpHistory, qpCapacity, qpAbsolute, qpAdds, qpBuffer>>

\* IndexingTables::clear: the entries are emptied, the capacity stays
HpClearStep ==
    /\ tblOps < MaxTblOps
    /\ hpEntries' = <<>>
    /\ tblOps' = tblOps + 1
    /\ UNCHANGED <<hpCapacity, hpHistory, qpCapacity, qpAbsolute, qpAdds, qpBuffer>>

QpAddStep ==
    /\ tblOps < MaxTblOps
    /\ \E name \in TblNames, value \in TblValues :
          qpBuffer' = QpAdd(qpCapacity, qpBuffer, name, value)
    /\ qpAbsolute' = qpAbsolute + 1
    /\ qpAdds' = qpAdds + 1
    /\ tblOps' = tblOps + 1
    /\ UNCHANGED <<hpCapacity, hpEntries, hpHistory, qpCapacity>>

QpSetCapacityStep ==
    /\ tblOps < MaxTblOps
    /\ \E n \in TblCapacities :
          /\ qpCapacity' = n
          /\ qpBuffer' = QpSetCapacity(n, qpBuffer)
    /\ tblOps' = tblOps + 1
    /\ UNCHANGED <<hpCapacity, hpEntries, hpHistory, qpAbsolute, qpAdds>>

QpClearStep ==
    /\ tblOps < MaxTblOps
    /\ qpAbsolute' = QpClear(qpAbsolute, qpBuffer).absolute
    /\ qpBuffer' = QpClear(qpAbsolute, qpBuffer).buffer
    /\ tblOps' = tblOps + 1
    /\ UNCHANGED <<hpCapacity, hpEntries, hpHistory, qpCapacity, qpAdds>>

NextTbl ==
    \/ HpAddStep
    \/ HpSizeUpdateStep
    \/ HpClearStep
    \/ QpAddStep
    \/ QpSetCapacityStep
    \/ QpClearStep

\* C1: after every add and size_update (HPACK) and every add and set_capacity
\* (QPACK), the table size - the sum of len(name) + len(value) + 32 over its
\* entries - is at most the current capacity.
C1_SizeWithinCapacity ==
    /\ TableSize(hpEntries) <= hpCapacity
    /\ TableSize(qpBuffer) <= qpCapacity

\* C1 witness: both tables have evicted, and the HPACK table still holds an entry.
C1_Witness ==
    /\ Len(hpEntries) >= 1
    /\ Len(hpHistory) > Len(hpEntries)
    /\ qpAbsolute > Len(qpBuffer)
    /\ hpCapacity < DEFAULT_CAPACITY

\* C2: the HPACK dynamic entries are the most recently added entries, newest
\* at combined index 62 and each older one at the next index: eviction only
\* ever removes the oldest.
C2_NewestRunInOrder ==
    /\ Len(hpEntries) <= Len(hpHistory)
    /\ \A i \in 1..Len(hpEntries) :
          HpGetEntry(hpEntries, STATIC_TABLE_LEN + i) = Some(hpHistory[i])
    /\ HpGetEntry(hpEntries, STATIC_TABLE_LEN + Len(hpEntries) + 1) = None

\* C2 witness: three entries were added, the oldest was evicted, two survive.
C2_Witness ==
    /\ Len(hpHistory) = 3
    /\ Len(hpEntries) = 2
    /\ TableSize(hpHistory) > hpCapacity


\* C25: the inserted count of the QPACK table equals the number of add calls
\* made so far - one more on every add, unchanged by eviction, set_capacity and
\* clear - and is at least the number of entries held.
C25_InsertedCount ==
    /\ qpAbsolute = qpAdds
    /\ qpAbsolute >= Len(qpBuffer)

\* C25 witness: two entries were added and the table was then cleared: nothing
\* is held and the count is still 2.
C25_Witness ==
    /\ tblOps = 3
    /\ qpAdds = 2
    /\ qpAbsolute = 2
    /\ qpBuffer = <<>>
    /\ qpCapacity = DEFAULT_CAPACITY
    /\ hpHistory = <<>>

-----------------------------------------------------------------------------
(* Finding an index for a field: Indices::find_an_index over the static    *)
(* table and a dynamic table built by add.                                 *)

\* STATIC_TABLE_INDEX.get(s): the map is keyed by the bytes of the name
\* followed by the bytes of the value; a later insert of the same key
\* replaces the earlier one
STATIC_TABLE_INDEX(s) ==
    LET hits == { i \in 1..STATIC_TABLE_LEN : STATIC_TABLE[i][1] \o STATIC_TABLE[i][2] = s }
    IN  IF hits = {} THEN None ELSE Some(CHOOSE i \in hits : \A j \in hits : j <= i)

\* STATIC_TABLE_INDICES.get(name): the indexes of the name, in table order
RECURSIVE StaticIndicesFrom(_, _)
StaticIndicesFrom(name, i) ==
    IF i > STATIC_TABLE_LEN THEN <<>>
    ELSE (IF STATIC_TABLE[i][1] = name THEN <<i>> ELSE <<>>) \o StaticIndicesFrom(name, i + 1)

STATIC_TABLE_INDICES(name) == StaticIndicesFrom(name, 1)

\* the loop of find_name_value over the dynamic entries from position i on:
\* the combined index of every entry equal to (name, value), in order
RECURSIVE DynamicPairHits(_, _, _, _)
DynamicPairHits(entries, i, name, value) ==
    IF i > Len(entries) THEN <<>>
    ELSE (IF entries[i][1] = name /\ entries[i][2] = value
          THEN <<i + STATIC_TABLE_LEN>> ELSE <<>>)
             \o DynamicPairHits(entries, i + 1, name, value)

\* the loop of find_name over the dynamic entries from position i on
RECURSIVE DynamicNameHits(_, _, _)
DynamicNameHits(entries, i, name) ==
    IF i > Len(entries) THEN <<>>
    ELSE (IF entries[i][1] = name THEN <<i + STATIC_TABLE_LEN>> ELSE <<>>)
             \o DynamicNameHits(entries, i + 1, name)

\* IndexingTables::find_name_value
find_name_value(entries, name, value) ==
    LET s == STATIC_TABLE_INDEX(name \o value)
    IN  (IF s # None THEN <<Unwrap(s)>> ELSE <<>>) \o DynamicPairHits(entries, 1, name, value)

\* IndexingTables::find_name
find_name(entries, name) ==
    STATIC_TABLE_INDICES(name) \o DynamicNameHits(entries, 1, name)

\* Indices::find_an_index
find_an_index(entries, name, value) ==
    LET r == find_name_value(entries, name, value)
    IN  IF r = <<>>
        THEN LET q == find_name(entries, name)
             IN  IF q = <<>> THEN [kind |-> "None", i |-> 0, o |-> <<>>]
                 ELSE [kind |-> "One", i |-> q[1], o |-> value]
        ELSE [kind |-> "Both", i |-> r[1], o |-> <<>>]

VARIABLES
    idxEntries,  \* the dynamic entries, newest first
    idxFound     \* the last find_an_index call: name, value and result

idxVars == <<idxEntries, idxFound>>

\* the number of entries added before the lookups
MaxIdxAdds == 2

\* names: one outside the static table, ":method", and ":methodG"
IdxNames ==
    { <<97>>, <<58, 109, 101, 116, 104, 111, 100>>, <<58, 109, 101, 116, 104, 111, 100, 71>> }

\* values: empty, "GET", "ET", "x"
IdxValues == { <<>>, <<71, 69, 84>>, <<69, 84>>, <<120>> }

InitIdx ==
    /\ idxEntries = <<>>
    /\ idxFound = None

\* IndexingTables::add with the default capacity
IdxAdd ==
    /\ Len(idxEntries) < MaxIdxAdds
    /\ \E name \in IdxNames, value \in IdxValues :
          idxEntries' = HpAdd(DEFAULT_CAPACITY, idxEntries, name, value)
    /\ idxFound' = None

\* find_an_index(name, value) on the tables as they are
IdxFind ==
    /\ \E name \in IdxNames, value \in IdxValues :
          idxFound' = Some([name |-> name, value |-> value,
                            r |-> find_an_index(idxEntries, name, value)])
    /\ UNCHANGED idxEntries

NextIdx ==
    \/ IdxAdd
    \/ IdxFind

\* some static or dynamic entry satisfies the test
SomeEntry(entries, Test(_)) ==
    \/ \E i \in 1..STATIC_TABLE_LEN : Test(STATIC_TABLE[i])
    \/ \E i \in 1..Len(entries) : Test(entries[i])

\* C22: find_an_index returns Both(i) only when get_entry(i) equals (name,
\* value), and does so whenever some static or dynamic entry equals (name,
\* value); otherwise One(i, value) with get_name(i) equal to name whenever
\* some entry has that name; otherwise None.
C22_FindAnIndex ==
    idxFound # None =>
        LET f == Unwrap(idxFound)
            Same(e) == e[1] = f.name /\ e[2] = f.value
            SameName(e) == e[1] = f.name
        IN  /\ f.r.kind = "Both" =>
                  HpGetEntry(idxEntries, f.r.i) = Some(<<f.name, f.value>>)
            /\ SomeEntry(idxEntries, Same) => f.r.kind = "Both"
            /\ (~SomeEntry(idxEntries, Same) /\ SomeEntry(idxEntries, SameName)) =>
                  /\ f.r.kind = "One"
                  /\ f.r.o = f.value
                  /\ HpGetName(idxEntries, f.r.i) = Some(f.name)
            /\ ~SomeEntry(idxEntries, SameName) => f.r.kind = "None"

-----------------------------------------------------------------------------
(* Bit operations on naturals.                                             *)

RECURSIVE BitAnd(_, _)
BitAnd(a, b) ==
    IF a = 0 \/ b = 0 THEN 0
    ELSE (a % 2) * (b % 2) + 2 * BitAnd(a \div 2, b \div 2)

RECURSIVE BitOr(_, _)
BitOr(a, b) ==
    IF a = 0 THEN b
    ELSE IF b = 0 THEN a
    ELSE (IF a % 2 = 1 \/ b % 2 = 1 THEN 1 ELSE 0) + 2 * BitOr(a \div 2, b \div 2)

RECURSIVE Pow2(_)
Pow2(n) == IF n = 0 THEN 1 ELSE 2 * Pow2(n - 1)

\* the bits of value v on n bits, most significant first
RECURSIVE BitsOf(_, _)
BitsOf(v, n) ==
    IF n = 0 THEN <<>> ELSE BitsOf(v \div 2, n - 1) \o <<v % 2>>

\* the value of a bit sequence, most significant first
RECURSIVE ValueOf(_)
ValueOf(bits) ==
    IF bits = <<>> THEN 0 ELSE 2 * ValueOf(DropLast(bits)) + bits[Len(bits)]

-----------------------------------------------------------------------------
(* Huffman coding: h2/huffman/mod.rs.  HUFFMAN_CODE lists (code, bits) of   *)
(* RFC 7541 Appendix B for the symbols the inputs of this model use.       *)

HUFFMAN_SYMBOLS == { 0, 1, 10, 32, 48, 49, 255, 45, 46, 97, 99, 101, 104, 107, 108, 109, 110, 111, 112, 115, 116, 117, 118, 119, 120, 121, 122 }

HUFFMAN_CODE ==
    [ s \in HUFFMAN_SYMBOLS |->
        CASE s = 0   -> <<8184, 13>>            [] s = 1   -> <<8388568, 23>>
          [] s = 10  -> <<1073741820, 30>>   [] s = 32  -> <<20, 6>>
          [] s = 48  -> <<0, 5>>              [] s = 49  -> <<1, 5>>
          [] s = 255 -> <<67108846, 26>>
          [] s = 45  -> <<22, 6>>    [] s = 46  -> <<23, 6>>
          [] s = 97  -> <<3, 5>>     [] s = 99  -> <<4, 5>>
          [] s = 101 -> <<5, 5>>     [] s = 104 -> <<39, 6>>
          [] s = 107 -> <<117, 7>>   [] s = 108 -> <<40, 6>>
          [] s = 109 -> <<41, 6>>    [] s = 110 -> <<42, 6>>
          [] s = 111 -> <<7, 5>>     [] s = 112 -> <<43, 6>>
          [] s = 115 -> <<8, 5>>     [] s = 116 -> <<9, 5>>
          [] s = 117 -> <<45, 6>>    [] s = 118 -> <<119, 7>>
          [] s = 119 -> <<120, 7>>   [] s = 120 -> <<121, 7>>
          [] s = 121 -> <<122, 7>>   [] s = 122 -> <<123, 7>> ]

\* the code bits of every byte of s, in order
RECURSIVE HuffmanBits(_)
HuffmanBits(s) ==
    IF s = <<>> THEN <<>>
    ELSE BitsOf(HUFFMAN_CODE[Head(s)][1], HUFFMAN_CODE[Head(s)][2]) \o HuffmanBits(Tail(s))

\* bits packed into bytes, the last byte padded with one-bits
RECURSIVE PackBits(_)
PackBits(bits) ==
    IF bits = <<>> THEN <<>>
    ELSE IF Len(bits) >= 8 THEN <<ValueOf(SubSeq(bits, 1, 8))>> \o PackBits(SubSeq(bits, 9, Len(bits)))
    ELSE <<ValueOf(bits \o [i \in 1..(8 - Len(bits)) |-> 1])>>

\* encode_huffman: codes packed most significant bit first, padded with ones
encode_huffman(s) == PackBits(HuffmanBits(s))

\* the symbol whose code is exactly the bit sequence, if any
HuffmanSymbolOf(bits) ==
    { s \in HUFFMAN_SYMBOLS :
        HUFFMAN_CODE[s][2] = Len(bits) /\ HUFFMAN_CODE[s][1] = ValueOf(bits) }

\* decode_huffman: the table-driven decoder walks the code tree bit by bit and
\* emits a symbol at each leaf; bits left over at the end are padding
RECURSIVE DecodeHuffmanBits(_, _)
DecodeHuffmanBits(bits, pending) ==
    IF bits = <<>> THEN <<>>
    ELSE LET p == Append(pending, Head(bits))
             hit == HuffmanSymbolOf(p)
         IN  IF hit # {} THEN <<CHOOSE s \in hit : TRUE>> \o DecodeHuffmanBits(Tail(bits), <<>>)
             ELSE DecodeHuffmanBits(Tail(bits), p)

RECURSIVE BytesToBits(_)
BytesToBits(s) ==
    IF s = <<>> THEN <<>> ELSE BitsOf(Head(s), 8) \o BytesToBits(Tail(s))

decode_huffman(s) == DecodeHuffmanBits(BytesToBits(s), <<>>)

-----------------------------------------------------------------------------
(* HPACK primitives: h2/prty.rs                                            *)

\* the 7-bit continuation chunks of encode_integer, least significant first
RECURSIVE EncodeIntegerChunks(_)
EncodeIntegerChunks(i) ==
    IF i >= 128 THEN <<(i % 128) + 128>> \o EncodeIntegerChunks(i \div 128) ELSE <<i>>

\* encode_integer that stops after the prefix byte
encode_integer_prefix_only(i, w, p) ==
    IF w < 1 \/ w >= 8 THEN <<>>
    ELSE LET a == Pow2(w) - 1
         IN  IF i < a THEN <<BitOr(i % 256, p)>> ELSE <<BitOr(a, p)>>

\* encode_integer(i, w, p): integer i on w bits with prefix p
encode_integer(i, w, p) ==
    IF w < 1 \/ w >= 8 THEN <<>>
    ELSE LET a == Pow2(w) - 1
         IN  IF i < a THEN <<BitOr(i % 256, p)>>
             ELSE <<BitOr(a, p)>> \o EncodeIntegerChunks(i - a)

\* decode_integer(n, reader): the loop over continuation bytes; m is the shift
RECURSIVE DecodeIntegerLoop(_, _, _)
DecodeIntegerLoop(n, m, reader) ==
    IF reader = <<>> THEN [v |-> n, rest |-> reader]
    ELSE LET i == Head(reader)
             n2 == n + BitAnd(i, 127) * Pow2(m)
         IN  IF BitAnd(i, 128) = 0 THEN [v |-> n2, rest |-> Tail(reader)]
             ELSE DecodeIntegerLoop(n2, m + 7, Tail(reader))

\* decode_integer that reads one continuation byte only
decode_integer_one_byte(n, reader) ==
    IF reader = <<>> THEN [v |-> n, rest |-> reader]
    ELSE [v |-> n + BitAnd(Head(reader), 127), rest |-> Tail(reader)]

decode_integer(n, reader) == DecodeIntegerLoop(n, 0, reader)

\* encode_literal: raw octets behind their length
encode_literal(s) == encode_integer(Len(s), 7, 0) \o s

\* encode_literal_huffman_encoded
encode_literal_huffman_encoded(s) ==
    encode_integer(Len(encode_huffman(s)), 7, 128) \o encode_huffman(s)

\* get_bytes(r, reader): the next r octets of the reader (all of them when
\* fewer remain)
get_bytes(r, reader) ==
    [v |-> SubSeq(reader, 1, Min(r, Len(reader))),
     rest |-> SubSeq(reader, Min(r, Len(reader)) + 1, Len(reader))]

\* decode_literal / decode_literal_to_vec
decode_literal_to_vec(reader) ==
    IF reader = <<>> THEN [v |-> <<>>, rest |-> reader]
    ELSE LET i == Head(reader)
             r1 == Tail(reader)
         IN  IF i >= 128 /\ i < 255 THEN
                 LET g == get_bytes(BitAnd(i, 127), r1)
                 IN  [v |-> decode_huffman(g.v), rest |-> g.rest]
             ELSE IF i = 255 THEN
                 LET d == decode_integer(127, r1)
                     g == get_bytes(d.v, d.rest)
                 IN  [v |-> decode_huffman(g.v), rest |-> g.rest]
             ELSE IF i < 127 THEN
                 LET g == get_bytes(i, r1)
                 IN  [v |-> g.v, rest |-> g.rest]
             ELSE
                 LET d == decode_integer(127, r1)
                     g == get_bytes(d.v, d.rest)
                 IN  [v |-> g.v, rest |-> g.rest]

-----------------------------------------------------------------------------
(* HPACK instructions: h2/hpack/mod.rs.  A literal is an OctetsRef: its     *)
(* octets and its "prefer Huffman" flag.                                    *)

OctetsRef(o) == [o |-> o, huffman |-> FALSE]

OctetsRefHuffman(o) == [o |-> o, huffman |-> TRUE]

\* the calls a byte producer makes on its WriteByte
Put(o) == [op |-> "put", o |-> o, cnt |-> 1, buf |-> <<>>]

PutRepeat(cnt, o) == [op |-> "put_repeat", o |-> o, cnt |-> cnt, buf |-> <<>>]

PutAll(buf) == [op |-> "put_all", o |-> 0, cnt |-> 0, buf |-> buf]

\* impl WriteByte for Vec<u8>: the vector after one call
VecWrite(v, w) ==
    CASE w.op = "put" -> Append(v, w.o)
      [] w.op = "put_repeat" -> v \o [i \in 1..w.cnt |-> w.o]
      [] w.op = "put_all" -> v \o w.buf

RECURSIVE VecWriteAll(_, _)
VecWriteAll(v, ws) ==
    IF ws = <<>> THEN v ELSE VecWriteAll(VecWrite(v, Head(ws)), Tail(ws))

\* encode_integer writes its bytes one by one
IntegerWrites(i, w, p) ==
    [k \in 1..Len(encode_integer(i, w, p)) |-> Put(encode_integer(i, w, p)[k])]

\* the literal of an OctetsRef, Huffman encoded when it asks for it: the length
\* byte by byte, then the octets as one slice
EncodeOctets(x) ==
    IF x.huffman
    THEN IntegerWrites(Len(encode_huffman(x.o)), 7, 128) \o <<PutAll(encode_huffman(x.o))>>
    ELSE IntegerWrites(Len(x.o), 7, 0) \o <<PutAll(x.o)>>

\* FieldRep::encode and the Instructions builders it calls, as the calls made
\* on the writer; a "SizeUpdate" record stands for
\* Instructions::dynamic_table_size_update
FieldRepWrites(rep) ==
    CASE rep.kind = "Indexed" -> IntegerWrites(rep.n, 7, 128)
      [] rep.kind = "IncrementalIndexingIndexedName" ->
            IntegerWrites(rep.n, 6, 64) \o EncodeOctets(rep.value)
      [] rep.kind = "IncrementalIndexingNewName" ->
            <<Put(64)>> \o EncodeOctets(rep.name) \o EncodeOctets(rep.value)
      [] rep.kind = "WithoutIndexingIndexedName" ->
            IntegerWrites(rep.n, 4, 0) \o EncodeOctets(rep.value)
      [] rep.kind = "WithoutIndexingNewName" ->
            <<Put(0)>> \o EncodeOctets(rep.name) \o EncodeOctets(rep.value)
      [] rep.kind = "NeverIndexedIndexedName" ->
            IntegerWrites(rep.n, 4, 16) \o EncodeOctets(rep.value)
      [] rep.kind = "NeverIndexedNewName" ->
            <<Put(16)>> \o EncodeOctets(rep.name) \o EncodeOctets(rep.value)
      [] rep.kind = "SizeUpdate" -> IntegerWrites(rep.n, 5, 32)

\* FieldRep::encode into a Vec<u8>
FieldRepEncode(rep) == VecWriteAll(<<>>, FieldRepWrites(rep))

RECURSIVE EncodeReps(_)
EncodeReps(reps) ==
    IF reps = <<>> THEN <<>> ELSE FieldRepEncode(Head(reps)) \o EncodeReps(Tail(reps))

\* one DistributeInstructions call: which callback, with which arguments,
\* and the reader after it
Call(cb, n, name, value, rest) ==
    [cb |-> cb, n |-> n, name |-> name, value |-> value, rest |-> rest]

\* decode_u8 for a representation that carries an index and a value literal
DecodeIndexedName(cb, i, mask, reader) ==
    IF BitAnd(i, mask) = mask THEN
        LET d == decode_integer(mask, reader)
            l == decode_literal_to_vec(d.rest)
        IN  Call(cb, d.v, <<>>, l.v, l.rest)
    ELSE
        LET l == decode_literal_to_vec(reader)
        IN  Call(cb, BitAnd(i, mask), <<>>, l.v, l.rest)

\* decode_u8 for a representation that carries a name literal and a value literal
DecodeNewName(cb, reader) ==
    LET a == decode_literal_to_vec(reader)
        b == decode_literal_to_vec(a.rest)
    IN  Call(cb, 0, a.v, b.v, b.rest)

\* decode_u8(i, reader, ins): dispatch on the first byte
decode_u8(i, reader) ==
    IF i > 128 /\ i < 255 THEN Call("indexed", BitAnd(i, 127), <<>>, <<>>, reader)
    ELSE IF i = 255 THEN
        LET d == decode_integer(127, reader) IN Call("indexed", d.v, <<>>, <<>>, d.rest)
    ELSE IF i = 128 THEN Call("none", 0, <<>>, <<>>, reader)
    ELSE IF i > 64 THEN DecodeIndexedName("incremental_indexing_indexed_name", i, 63, reader)
    ELSE IF i = 64 THEN DecodeNewName("incremental_indexing_new_name", reader)
    ELSE IF i >= 32 THEN
        IF i = 63 THEN
            LET d == decode_integer(31, reader)
            IN  Call("dynamic_table_size_update", d.v, <<>>, <<>>, d.rest)
        ELSE Call("dynamic_table_size_update", BitAnd(i, 31), <<>>, <<>>, reader)
    ELSE IF i > 16 THEN DecodeIndexedName("never_indexed_indexed_name", i, 15, reader)
    ELSE IF i = 16 THEN DecodeNewName("never_indexed_new_name", reader)
    ELSE IF i > 0 THEN DecodeIndexedName("without_indexing_indexed_name", i, 15, reader)
    ELSE DecodeNewName("without_indexing_new_name", reader)

-----------------------------------------------------------------------------
(* H2DecodeFieldsHelper over an IndexingTables and a Vec output:           *)
(* h2/assist/mod.rs.  A helper state is the table the helper borrows and   *)
(* the output list it appends to.                                          *)

VARIABLES
    decReader,   \* the bytes of the field block Instructions::decode has not read yet
    decOutput,   \* the Vec<(Vec<u8>, Vec<u8>)> output of the helper
    decPc,       \* "idle" between blocks, "decoding" inside Instructions::decode
    decGiven,    \* history: every representation encoded into the blocks so far
    decCalls     \* history: every callback made so far, with what it emitted

decVars == <<decReader, decOutput, decPc, decGiven, decCalls>>

Helper(capacity, entries, output) ==
    [capacity |-> capacity, entries |-> entries, output |-> output]

\* H2DistributeFields::next for Vec: pseudo-header or not, the pair is pushed
DistributeNext(output, name, value) == Append(output, <<name, value>>)

helper_indexed(h, n) ==
    IF HpGetEntry(h.entries, n) # None
    THEN LET e == Unwrap(HpGetEntry(h.entries, n))
         IN  Helper(h.capacity, h.entries, DistributeNext(h.output, e[1], e[2]))
    ELSE h

\* a mutation of incremental_indexing_new_name that emits and does not insert
helper_incremental_indexing_new_name_no_add(h, name, value) ==
    Helper(h.capacity, h.entries, DistributeNext(h.output, name, value))

helper_incremental_indexing_new_name(h, name, value) ==
    Helper(h.capacity, HpAdd(h.capacity, h.entries, name, value),
           DistributeNext(h.output, name, value))

\* a mutation of incremental_indexing_indexed_name that inserts an entry with
\* an empty name when the index names no entry
helper_incremental_indexing_indexed_name_always_add(h, n, value) ==
    IF HpGetName(h.entries, n) # None
    THEN LET name == Unwrap(HpGetName(h.entries, n))
         IN  Helper(h.capacity, HpAdd(h.capacity, h.entries, name, value),
                    DistributeNext(h.output, name, value))
    ELSE Helper(h.capacity, HpAdd(h.capacity, h.entries, <<>>, value), h.output)

helper_incremental_indexing_indexed_name(h, n, value) ==
    IF HpGetName(h.entries, n) # None
    THEN LET name == Unwrap(HpGetName(h.entries, n))
         IN  Helper(h.capacity, HpAdd(h.capacity, h.entries, name, value),
                    DistributeNext(h.output, name, value))
    ELSE h

\* without_indexing_indexed_name and never_indexed_indexed_name
helper_literal_indexed_name(h, n, value) ==
    IF HpGetName(h.entries, n) # None
    THEN Helper(h.capacity, h.entries,
                DistributeNext(h.output, Unwrap(HpGetName(h.entries, n)), value))
    ELSE h

\* without_indexing_new_name and never_indexed_new_name
helper_literal_new_name(h, name, value) ==
    Helper(h.capacity, h.entries, DistributeNext(h.output, name, value))

helper_dynamic_table_size_update(h, n) ==
    Helper(n, HpSizeUpdate(n, h.entries), h.output)

\* the DistributeInstructions callback a decoded call lands in
Distribute(h, c) ==
    CASE c.cb = "indexed" -> helper_indexed(h, c.n)
      [] c.cb = "incremental_indexing_indexed_name" ->
            helper_incremental_indexing_indexed_name(h, c.n, c.value)
      [] c.cb = "incremental_indexing_new_name" ->
            helper_incremental_indexing_new_name(h, c.name, c.value)
      [] c.cb \in {"without_indexing_indexed_name", "never_indexed_indexed_name"} ->
            helper_literal_indexed_name(h, c.n, c.value)
      [] c.cb \in {"without_indexing_new_name", "never_indexed_new_name"} ->
            helper_literal_new_name(h, c.name, c.value)
      [] c.cb = "dynamic_table_size_update" -> helper_dynamic_table_size_update(h, c.n)
      [] OTHER -> h

\* Instructions::decode run to the end of the reader: the helper state after
\* every representation of the block has been handled
RECURSIVE InstructionsDecode(_, _)
InstructionsDecode(h, reader) ==
    IF reader = <<>> THEN h
    ELSE LET c == decode_u8(Head(reader), Tail(reader))
         IN  InstructionsDecode(Distribute(h, c), c.rest)

\* H2DecodeFieldsHelper::byte_slice
byte_slice(h, buffer) == InstructionsDecode(h, buffer)

\* the total number of representations the decoder is fed, over all blocks
MaxDecReps == 3

\* the representations the blocks are built from
DecReps ==
    { [kind |-> "Indexed", n |-> 0],
      [kind |-> "Indexed", n |-> 62],
      [kind |-> "Indexed", n |-> 2],
      [kind |-> "IncrementalIndexingNewName",
       name |-> OctetsRef(<<97>>), value |-> OctetsRefHuffman(<<120, 121, 122>>)],
      [kind |-> "IncrementalIndexingIndexedName", n |-> 2, value |-> OctetsRef(<<120, 121>>)],
      [kind |-> "IncrementalIndexingIndexedName", n |-> 62, value |-> OctetsRefHuffman(<<107>>)],
      [kind |-> "WithoutIndexingNewName",
       name |-> OctetsRefHuffman(<<99>>), value |-> OctetsRef(<<>>)],
      [kind |-> "NeverIndexedIndexedName", n |-> 62, value |-> OctetsRef(<<118>>)],
      [kind |-> "WithoutIndexingIndexedName", n |-> 66, value |-> OctetsRef(<<119>>)],
      [kind |-> "SizeUpdate", n |-> 0],
      [kind |-> "SizeUpdate", n |-> 40] }

InitDec ==
    /\ decReader = <<>>
    /\ decOutput = <<>>
    /\ decPc = "idle"
    /\ decGiven = <<>>
    /\ decCalls = <<>>

\* byte_slice is called with a new field block: the encoding of some
\* representations; the table and the output are the ones already in use
DecStartBlock ==
    /\ decPc = "idle"
    /\ Len(decGiven) < MaxDecReps
    /\ \E n \in 1..(MaxDecReps - Len(decGiven)) :
         \E reps \in [1..n -> DecReps] :
            /\ decReader' = EncodeReps(reps)
            /\ decGiven' = decGiven \o reps
    /\ decPc' = "decoding"
    /\ UNCHANGED <<decOutput, decCalls, tblVars>>

\* one turn of the loop of Instructions::decode: fetch a byte, decode_u8 reads
\* the rest of the representation and makes the callback
DecDecodeOne ==
    /\ decPc = "decoding"
    /\ decReader # <<>>
    /\ LET c == decode_u8(Head(decReader), Tail(decReader))
           h == Helper(hpCapacity, hpEntries, decOutput)
           r == Distribute(h, c)
           inserts == /\ c.cb \in {"incremental_indexing_indexed_name",
                                   "incremental_indexing_new_name"}
                      /\ Len(r.output) > Len(decOutput)
       IN  /\ decReader' = c.rest
           /\ decOutput' = r.output
           /\ hpCapacity' = r.capacity
           /\ hpEntries' = r.entries
           /\ hpHistory' = IF inserts THEN <<r.output[Len(r.output)]>> \o hpHistory
                           ELSE hpHistory
           /\ decCalls' = Append(decCalls,
                  [cb |-> c.cb, n |-> c.n, name |-> c.name, value |-> c.value,
                   emitted |-> SubSeq(r.output, Len(decOutput) + 1, Len(r.output)),
                   capacity |-> hpCapacity, entries |-> hpEntries])
    /\ UNCHANGED <<decPc, decGiven, qpCapacity, qpAbsolute, qpAdds, qpBuffer, tblOps>>

\* the reader is exhausted: Instructions::decode returns
DecEndBlock ==
    /\ decPc = "decoding"
    /\ decReader = <<>>
    /\ decPc' = "idle"
    /\ UNCHANGED <<decReader, decOutput, decGiven, decCalls, tblVars>>

NextDec ==
    \/ DecStartBlock
    \/ DecDecodeOne
    \/ DecEndBlock

\* the callback and arguments that handling a representation in order makes
\* (decode_u8 makes no callback for the byte 128, which is Indexed(0))
CallOfRep(rep) ==
    CASE rep.kind = "Indexed" /\ rep.n = 0 -> <<"none", 0, <<>>, <<>>>>
      [] rep.kind = "Indexed" -> <<"indexed", rep.n, <<>>, <<>>>>
      [] rep.kind = "IncrementalIndexingIndexedName" ->
            <<"incremental_indexing_indexed_name", rep.n, <<>>, rep.value.o>>
      [] rep.kind = "IncrementalIndexingNewName" ->
            <<"incremental_indexing_new_name", 0, rep.name.o, rep.value.o>>
      [] rep.kind = "WithoutIndexingIndexedName" ->
            <<"without_indexing_indexed_name", rep.n, <<>>, rep.value.o>>
      [] rep.kind = "WithoutIndexingNewName" ->
            <<"without_indexing_new_name", 0, rep.name.o, rep.value.o>>
      [] rep.kind = "NeverIndexedIndexedName" ->
            <<"never_indexed_indexed_name", rep.n, <<>>, rep.value.o>>
      [] rep.kind = "NeverIndexedNewName" ->
            <<"never_indexed_new_name", 0, rep.name.o, rep.value.o>>
      [] rep.kind = "SizeUpdate" -> <<"dynamic_table_size_update", rep.n, <<>>, <<>>>>

IsIncremental(call) ==
    call.cb \in {"incremental_indexing_indexed_name", "incremental_indexing_new_name"}

\* the k-th call is an Indexed(62) and the call before it an incremental-indexing
\* literal that emitted a field (its name was known)
Indexed62AfterLiteral(k) ==
    /\ k >= 2 /\ k <= Len(decCalls)
    /\ decCalls[k].cb = "indexed" /\ decCalls[k].n = 62
    /\ IsIncremental(decCalls[k - 1])
    /\ decCalls[k - 1].emitted # <<>>

\* the entry of a literal call fits the capacity in force when it was handled
LiteralFits(call) ==
    Len(call.emitted[1][1]) + Len(call.emitted[1][2]) + ENTRY_OVERHEAD <= call.capacity

\* the calls made so far are those of the representations given, in order
HandledInByteOrder ==
    /\ Len(decCalls) <= Len(decGiven)
    /\ \A k \in 1..Len(decCalls) :
          <<decCalls[k].cb, decCalls[k].n, decCalls[k].name, decCalls[k].value>>
              = CallOfRep(decGiven[k])
    /\ decPc = "idle" => Len(decCalls) = Len(decGiven)

\* C3: the representations of a block are handled in byte order, each
\* insertion is in the table before the next representation is decoded, and
\* an Indexed(62) right after an incremental-indexing literal - in the same
\* block or, the table being shared, in the next one - emits that literal's
\* name and value, provided the literal's entry fits the table capacity.
C3_InOrderInsertThenNext ==
    /\ HandledInByteOrder
    /\ \A k \in 1..Len(decCalls) :
          (Indexed62AfterLiteral(k) /\ LiteralFits(decCalls[k - 1]))
              => decCalls[k].emitted = decCalls[k - 1].emitted
    /\ (decCalls # <<>> /\ IsIncremental(decCalls[Len(decCalls)])
          /\ decCalls[Len(decCalls)].emitted # <<>>
          /\ LiteralFits(decCalls[Len(decCalls)]))
          => HpGetEntry(hpEntries, STATIC_TABLE_LEN + 1)
               = Some(decCalls[Len(decCalls)].emitted[1])

\* C3 as stated: an Indexed(62) after an incremental-indexing literal emits
\* that literal's name and value whatever the table capacity.
C3_AsStated ==
    /\ HandledInByteOrder
    /\ \A k \in 1..Len(decCalls) :
          Indexed62AfterLiteral(k) => decCalls[k].emitted = decCalls[k - 1].emitted

\* C3 witness: an Indexed(62) was handled right after an incremental-indexing
\* literal that fits, in a later block than the literal's.
C3_Witness ==
    /\ decPc = "idle"
    /\ Len(decCalls) = 3
    /\ Indexed62AfterLiteral(3)
    /\ LiteralFits(decCalls[2])
    /\ decCalls[3].emitted = <<<<<<97>>, <<120, 121, 122>>>>>>


\* the dynamic table as the k-th call left it
EntriesAfter(k) == IF k < Len(decCalls) THEN decCalls[k + 1].entries ELSE hpEntries

\* the k-th representation carried an index that names no entry of the table
\* it was handled with: 0, or more than the static and dynamic entries together
InvalidIndex(k) ==
    /\ decGiven[k].kind \in {"Indexed", "IncrementalIndexingIndexedName",
                             "WithoutIndexingIndexedName", "NeverIndexedIndexedName"}
    /\ \/ decGiven[k].n = 0
       \/ decGiven[k].n > STATIC_TABLE_LEN + Len(decCalls[k].entries)

\* C23: a representation whose index is 0 or greater than 61 plus the number
\* of dynamic entries emits no field and leaves the dynamic table unchanged
\* (the incremental-indexing indexed-name form too), and the representations
\* after it in the block are handled as usual.
C23_InvalidIndexSkipped ==
    /\ HandledInByteOrder
    /\ \A k \in 1..Len(decCalls) :
          InvalidIndex(k) => /\ decCalls[k].emitted = <<>>
                             /\ EntriesAfter(k) = decCalls[k].entries

\* C23 witness: three representations were decoded; the first was Indexed(0), the
\* second an incremental-indexing literal whose name index 62 named no
\* entry, and the third, a valid Indexed(2), emitted its field.
C23_Witness ==
    /\ decPc = "idle"
    /\ Len(decCalls) = 3
    /\ decGiven[1].kind = "Indexed" /\ decGiven[1].n = 0
    /\ decGiven[2].kind = "IncrementalIndexingIndexedName" /\ InvalidIndex(2)
    /\ decCalls[3].cb = "indexed" /\ decCalls[3].emitted # <<>>
    /\ hpEntries = <<>>

-----------------------------------------------------------------------------
(* FieldRep::encode followed by Instructions::decode with a                *)
(* DistributeInstructions that records its calls.                          *)

VARIABLES
    repPc,       \* "idle", "decoding" inside Instructions::decode, "done"
    repGiven,    \* the representations encoded back to back
    repReader,   \* the bytes Instructions::decode has not read yet
    repCalls     \* the callbacks made so far and the bytes each one used

repVars == <<repPc, repGiven, repReader, repCalls>>

\* the longest list of representations encoded back to back
MaxRepList == 2

\* indexes, around the ends of the 4, 6 and 7 bit prefixes and beyond
RepIndexes == {1, 14, 15, 16, 62, 63, 126, 127, 128, 300, 16511, 3000000}

\* names and values: raw octets of any byte, one of them with a length that
\* needs continuation bytes, and Huffman-coded ones
RepLiterals ==
    { OctetsRef(<<>>), OctetsRef(<<97>>), OctetsRef(<<0, 255, 128>>),
      OctetsRef([i \in 1..130 |-> 58]),
      OctetsRefHuffman(<<>>), OctetsRefHuffman(<<120, 121, 122>>),
      OctetsRefHuffman(<<107, 45>>), OctetsRefHuffman(<<97, 99, 101, 104, 108, 109, 122>>) }

IndexedNameKinds ==
    {"IncrementalIndexingIndexedName", "WithoutIndexingIndexedName", "NeverIndexedIndexedName"}

NewNameKinds ==
    {"IncrementalIndexingNewName", "WithoutIndexingNewName", "NeverIndexedNewName"}

\* the FieldRep values tried one at a time
RepAll ==
    { [kind |-> "Indexed", n |-> n] : n \in RepIndexes }
    \cup { [kind |-> k, n |-> n, value |-> v] :
               k \in IndexedNameKinds, n \in RepIndexes, v \in RepLiterals }
    \cup { [kind |-> k, name |-> a, value |-> v] :
               k \in NewNameKinds, a \in RepLiterals, v \in RepLiterals }

\* the FieldRep values the lists are made of
RepFew ==
    { [kind |-> "Indexed", n |-> n] : n \in {2, 127} }
    \cup { [kind |-> k, n |-> 15, value |-> OctetsRefHuffman(<<107, 45>>)] :
               k \in IndexedNameKinds }
    \cup { [kind |-> k, name |-> OctetsRef(<<97>>), value |-> OctetsRef(<<>>)] :
               k \in NewNameKinds }

InitRep ==
    /\ repPc = "idle"
    /\ repGiven = <<>>
    /\ repReader = <<>>
    /\ repCalls = <<>>

\* each representation of a list is encoded into one Vec<u8>, which is then
\* handed to Instructions::decode
RepEncode ==
    /\ repPc = "idle"
    /\ \E reps \in { <<r>> : r \in RepAll }
                     \cup UNION { [1..n -> RepFew] : n \in 2..MaxRepList } :
          /\ repGiven' = reps
          /\ repReader' = EncodeReps(reps)
    /\ repPc' = "decoding"
    /\ UNCHANGED repCalls

\* one turn of the loop of Instructions::decode
RepDecodeOne ==
    /\ repPc = "decoding"
    /\ repReader # <<>>
    /\ LET c == decode_u8(Head(repReader), Tail(repReader))
       IN  /\ repReader' = c.rest
           /\ repCalls' = IF c.cb = "none" THEN repCalls
                          ELSE Append(repCalls,
                                   [cb |-> c.cb, n |-> c.n, name |-> c.name, value |-> c.value,
                                    used |-> Len(repReader) - Len(c.rest)])
    /\ UNCHANGED <<repPc, repGiven>>

\* the reader is exhausted: Instructions::decode returns
RepEnd ==
    /\ repPc = "decoding"
    /\ repReader = <<>>
    /\ repPc' = "done"
    /\ UNCHANGED <<repGiven, repReader, repCalls>>

NextRep ==
    \/ RepEncode
    \/ RepDecodeOne
    \/ RepEnd

\* the k-th callback is the one of the k-th representation given, with its
\* index, name and value, and used exactly the bytes FieldRep::encode wrote
RepCallMatches(k) ==
    /\ <<repCalls[k].cb, repCalls[k].n, repCalls[k].name, repCalls[k].value>>
           = CallOfRep(repGiven[k])
    /\ repCalls[k].used = Len(FieldRepEncode(repGiven[k]))

\* C20: for each of the seven FieldRep variants, every index >= 1, name and
\* value (raw or Huffman-coded), Instructions::decode over the bytes of
\* FieldRep::encode makes exactly one callback, the one of the same
\* representation with the same index, name and value, and consumes exactly
\* those bytes; representations encoded back to back decode to the same list
\* in the same order.
C20_RepRoundTrip ==
    /\ Len(repCalls) <= Len(repGiven)
    /\ \A k \in 1..Len(repCalls) : RepCallMatches(k)
    /\ repPc = "decoding" =>
         Len(repReader) = Len(EncodeReps(SubSeq(repGiven, Len(repCalls) + 1, Len(repGiven))))
    /\ repPc = "done" => Len(repCalls) = Len(repGiven)

\* C20 witness: a never-indexed literal whose index needs continuation bytes
\* and whose value is Huffman-coded has been decoded
C20_Witness ==
    /\ repPc = "done"
    /\ Len(repGiven) = 1
    /\ repGiven[1].kind = "NeverIndexedIndexedName"
    /\ repGiven[1].n = 3000000
    /\ repGiven[1].value.huffman
    /\ Len(repGiven[1].value.o) = 7
    /\ repCalls[1].n = 3000000
    /\ repCalls[1].value = repGiven[1].value.o
    /\ repCalls[1].used = Len(FieldRepEncode(repGiven[1]))

\* C20 witness of a list: two representations decoded in order
C20_WitnessList ==
    /\ repPc = "done"
    /\ Len(repCalls) = 2
    /\ repCalls[1].cb = "indexed" /\ repCalls[1].n = 127
    /\ repCalls[2].cb = "incremental_indexing_indexed_name"

-----------------------------------------------------------------------------
(* Prefixed integers: encode_integer followed by decode_integer, as the    *)
(* instruction decoders use them.                                          *)

VARIABLES
    intPc,       \* "idle", "encoded", "decoded"
    intArgs,     \* the arguments i, w, p of encode_integer
    intBytes,    \* the bytes written, followed by the bytes of what comes next
    intRead      \* the value read back and the bytes left unread

intVars == <<intPc, intArgs, intBytes, intRead>>

\* the longest run of bytes that follows the integer in the reader
MaxIntSuffix == 2

\* integers around the ends of every prefix and of one to four continuation
\* bytes, up to 2^31 - 1
IntValues ==
    {0, 1, 2, 3, 6, 7, 8, 14, 15, 16, 30, 31, 32, 62, 63, 64, 126, 127, 128, 129,
     254, 255, 256, 1337, 16383, 16384, 16510, 16511, 2097151, 2097152, 2097279,
     268435455, 268435456, 268435583, 2147483647}

\* the prefix bits for width w: any bits above the low w bits
IntPrefixes(w) == { q * Pow2(w) : q \in 0..(Pow2(8 - w) - 1) }

\* bytes that follow the integer: another integer's continuation look-alikes
IntSuffixes ==
    UNION { [1..n -> {0, 133, 255}] : n \in 0..MaxIntSuffix }

\* the low w bits of the first byte and, when they are all ones,
\* decode_integer(2^w - 1) on the bytes that follow: the read every
\* instruction decoder makes
ReadPrefixed(w, bytes) ==
    LET a == Pow2(w) - 1
        low == BitAnd(Head(bytes), a)
    IN  IF low = a THEN decode_integer(a, Tail(bytes))
        ELSE [v |-> low, rest |-> Tail(bytes)]

InitInt ==
    /\ intPc = "idle"
    /\ intArgs = <<>>
    /\ intBytes = <<>>
    /\ intRead = <<>>

\* encode_integer(i, w, p, writer), then more bytes are written behind it
IntEncode ==
    /\ intPc = "idle"
    /\ \E i \in IntValues, w \in 1..7, s \in IntSuffixes :
         \E p \in IntPrefixes(w) :
            /\ intArgs' = [i |-> i, w |-> w, p |-> p, suffix |-> s]
            /\ intBytes' = encode_integer(i, w, p) \o s
    /\ intPc' = "encoded"
    /\ UNCHANGED intRead

\* the integer is read back from the front of the bytes
IntDecode ==
    /\ intPc = "encoded"
    /\ intRead' = ReadPrefixed(intArgs.w, intBytes)
    /\ intPc' = "decoded"
    /\ UNCHANGED <<intArgs, intBytes>>

NextInt ==
    \/ IntEncode
    \/ IntDecode

\* the 7-bit chunks of r, least significant first, all but the last with 0x80
RECURSIVE Chunks7(_)
Chunks7(r) == IF r < 128 THEN <<r>> ELSE <<128 + (r % 128)>> \o Chunks7(r \div 128)

\* what was written for the integer alone
IntWritten == SubSeq(intBytes, 1, Len(intBytes) - Len(intArgs.suffix))

\* C21: for every i, w in 1..7 and prefix bits p, encode_integer writes the
\* single byte i | p when i < 2^w - 1 and otherwise (2^w - 1) | p followed by
\* i - (2^w - 1) in 7-bit chunks, least significant first, each but the last
\* with 0x80 set; reading the low w bits of the first byte and, when they are
\* all ones, decode_integer(2^w - 1) on what follows returns i and consumes
\* exactly the bytes written.
C21_IntegerRoundTrip ==
    /\ intPc \in {"encoded", "decoded"} =>
         LET a == Pow2(intArgs.w) - 1
         IN  IntWritten = IF intArgs.i < a THEN <<intArgs.i + intArgs.p>>
                          ELSE <<a + intArgs.p>> \o Chunks7(intArgs.i - a)
    /\ intPc = "decoded" =>
         /\ intRead.v = intArgs.i
         /\ intRead.rest = intArgs.suffix

\* C21 witness: an integer that needs four continuation bytes behind a 5-bit
\* prefix was read back with other bytes following it
C21_Witness ==
    /\ intPc = "decoded"
    /\ intArgs.i = 268435455
    /\ intArgs.w = 5
    /\ intArgs.p = 32
    /\ Len(IntWritten) = 5
    /\ intArgs.suffix = <<133, 0>>
    /\ intRead.v = 268435455
    /\ intRead.rest = <<133, 0>>
-----------------------------------------------------------------------------
(* Variable-length integers of HTTP/3: h3/prty.rs.  A u64 is held as its   *)
(* eight bytes, most significant first.                                    *)

USABLE_BITS == 63
TWO_MOST_SIGNIFICANT_BITS_01 == 64
TWO_MOST_SIGNIFICANT_BITS_10 == 128
TWO_MOST_SIGNIFICANT_BITS_11 == 192

U64Zero == <<0, 0, 0, 0, 0, 0, 0, 0>>

\* v as u64 for a byte v
U64OfByte(b) == <<0, 0, 0, 0, 0, 0, 0, b>>

\* (v << 8) | b
U64ShiftIn(v, b) == Tail(v) \o <<b>>

\* n <= 2^(8k - 2) - 1: nothing above the low k bytes, and the top two bits of
\* the k-th lowest byte clear
U64Within(n, k) ==
    /\ \A j \in 1..(8 - k) : n[j] = 0
    /\ n[9 - k] <= USABLE_BITS

\* encode_var(i, p, writer): the bytes put
encode_var(i, p) ==
    CASE p = 0 -> <<BitAnd(i[8], USABLE_BITS)>>
      [] p = 1 -> <<BitOr(BitAnd(i[7], USABLE_BITS), TWO_MOST_SIGNIFICANT_BITS_01), i[8]>>
      [] p = 2 -> <<BitOr(BitAnd(i[5], USABLE_BITS), TWO_MOST_SIGNIFICANT_BITS_10),
                    i[6], i[7], i[8]>>
      [] p = 3 -> <<BitOr(i[1], TWO_MOST_SIGNIFICANT_BITS_11),
                    i[2], i[3], i[4], i[5], i[6], i[7], i[8]>>
      [] OTHER -> <<>>

\* the loop of decode_var: length more fetches, each shifted in when there is
\* a byte to fetch
RECURSIVE DecodeVarLoop(_, _, _)
DecodeVarLoop(v, length, reader) ==
    IF length = 0 THEN [v |-> v, rest |-> reader]
    ELSE IF reader = <<>> THEN DecodeVarLoop(v, length - 1, reader)
    ELSE DecodeVarLoop(U64ShiftIn(v, Head(reader)), length - 1, Tail(reader))

\* a mutation of decode_var that keeps the two length bits in the value
decode_var_keep_prefix(reader) ==
    IF reader = <<>> THEN [v |-> U64Zero, rest |-> reader]
    ELSE DecodeVarLoop(U64OfByte(Head(reader)), Pow2(Head(reader) \div 64) - 1, Tail(reader))

\* decode_var(reader)
decode_var(reader) ==
    IF reader = <<>> THEN [v |-> U64Zero, rest |-> reader]
    ELSE LET i == Head(reader)
             prefix == i \div 64
             length == Pow2(prefix)
         IN  DecodeVarLoop(U64OfByte(BitAnd(i, USABLE_BITS)), length - 1, Tail(reader))

\* encode_u64(n, writer): the bytes put
encode_u64(n) ==
    IF U64Within(n, 1) THEN encode_var(n, 0)
    ELSE IF U64Within(n, 2) THEN encode_var(n, 1)
    ELSE IF U64Within(n, 4) THEN encode_var(n, 2)
    ELSE IF U64Within(n, 8) THEN encode_var(n, 3)
    ELSE <<>>

\* u64_to_var
u64_to_var(a) == encode_u64(a)

VARIABLES
    varPc,       \* "idle", "encoded", "decoded"
    varArgs,     \* the u64 given to encode_u64 and the bytes written behind it
    varBytes,    \* the bytes written
    varRead      \* the value decode_var returned and the bytes left unread

varVars == <<varPc, varArgs, varBytes, varRead>>

\* the longest run of bytes that follows the integer in the reader
MaxVarSuffix == 1

\* a u64 with top as its highest non-zero byte, k bytes long, the bytes below
\* top all equal to fill
U64Shaped(k, top, fill) ==
    [j \in 1..8 |-> IF j < 9 - k THEN 0 ELSE IF j = 9 - k THEN top ELSE fill]

\* values on both sides of every length boundary: 63 | 64, 16383 | 16384,
\* 2^30 - 1 | 2^30, 2^62 - 1 | 2^62, and others in between
U64Values ==
    { U64Shaped(k, top, fill) : k \in 1..8, top \in {0, 1, 63, 64, 255}, fill \in {0, 129, 255} }

VarSuffixes == UNION { [1..n -> {0, 65, 255}] : n \in 0..MaxVarSuffix }

InitVar ==
    /\ varPc = "idle"
    /\ varArgs = <<>>
    /\ varBytes = <<>>
    /\ varRead = <<>>

\* encode_u64(n, writer), then more bytes are written behind it
VarEncode ==
    /\ varPc = "idle"
    /\ \E n \in U64Values, s \in VarSuffixes :
          /\ varArgs' = [n |-> n, suffix |-> s]
          /\ varBytes' = encode_u64(n) \o s
    /\ varPc' = "encoded"
    /\ UNCHANGED varRead

\* decode_var reads the integer back from the front of the bytes
VarDecode ==
    /\ varPc = "encoded"
    /\ varRead' = decode_var(varBytes)
    /\ varPc' = "decoded"
    /\ UNCHANGED <<varArgs, varBytes>>

NextVar ==
    \/ VarEncode
    \/ VarDecode

\* what was written for the integer alone
VarWritten == SubSeq(varBytes, 1, Len(varBytes) - Len(varArgs.suffix))

\* the low k bytes of n with the two length bits hi put on the first
VarExpected(n, k, hi) == <<n[9 - k] + hi * 64>> \o SubSeq(n, 10 - k, 8)

\* C28: for every i in [0, 2^62 - 1], encode_u64 writes 1 byte for i <= 63,
\* 2 bytes for i <= 16383, 4 bytes for i <= 2^30 - 1 and 8 bytes otherwise,
\* the two high bits of the first byte being 00, 01, 10 and 11 and the value
\* in big-endian order behind them, and decode_var reads i back.
C28_VarRoundTrip ==
    (varPc \in {"encoded", "decoded"} /\ U64Within(varArgs.n, 8)) =>
        LET n == varArgs.n
        IN  /\ VarWritten = IF U64Within(n, 1) THEN VarExpected(n, 1, 0)
                            ELSE IF U64Within(n, 2) THEN VarExpected(n, 2, 1)
                            ELSE IF U64Within(n, 4) THEN VarExpected(n, 4, 2)
                            ELSE VarExpected(n, 8, 3)
            /\ varPc = "decoded" => /\ varRead.v = n
                                   /\ varRead.rest = varArgs.suffix

\* C28 witness: 2^30, the first value that needs eight bytes, was written as
\* 0xC0 00 00 00 40 00 00 00 and read back with a byte following it
C28_Witness ==
    /\ varPc = "decoded"
    /\ varArgs.n = <<0, 0, 0, 0, 64, 0, 0, 0>>
    /\ VarWritten = <<192, 0, 0, 0, 64, 0, 0, 0>>
    /\ varArgs.suffix = <<65>>
    /\ varRead.v = varArgs.n
    /\ varRead.rest = <<65>>
-----------------------------------------------------------------------------
(* The primitives on input that ends in the middle of a value, and the     *)
(* HTTP/3 DATA frame decoder as the decoder around decode_var.             *)

\* n as u64, for n below 2^31
U64OfNat(n) ==
    <<0, 0, 0, 0, n \div 16777216, (n \div 65536) % 256, (n \div 256) % 256, n % 256>>

\* a < b for two u64
U64Less(a, b) ==
    \E j \in 1..8 : a[j] < b[j] /\ \A k \in 1..(j - 1) : a[k] = b[k]

\* h3/frame check_length(length, n, err): the errors inserted
h3_check_length(length, n) ==
    IF length = U64OfNat(n) THEN {}
    ELSE IF U64Less(U64OfNat(n), length) THEN {"LengthShortage"}
    ELSE {"LengthExcess"}

\* h3 DataDecoder::decode(v): v[0] is the frame type
H3DataDecoderDecode(v) ==
    LET d == decode_var(Tail(v))
    IN  [length |-> d.v, data |-> Len(v) - Len(d.rest),
         err |-> h3_check_length(d.v, Len(d.rest))]

VARIABLES
    cutPc,       \* "idle", "given", "read"
    cutInput,    \* the primitive, the complete encoding and the part of it received
    cutRead      \* what the primitive returned and the errors the decoder around it holds

cutVars == <<cutPc, cutInput, cutRead>>

\* the longest string literal cut short
MaxCutLiteral == 3

CutLiterals == UNION { [1..n -> {97, 120}] : n \in 1..MaxCutLiteral }

\* complete encodings of two bytes or more: prefixed integers behind their
\* first byte, string literals raw and Huffman coded, variable-length integers
CutWholes ==
    { [kind |-> "integer", w |-> w, whole |-> encode_integer(i, w, 0)] :
          w \in {4, 5, 7}, i \in { j \in IntValues : j >= 127 } }
    \cup { [kind |-> "literal", w |-> 7, whole |-> encode_literal(s)] : s \in CutLiterals }
    \cup { [kind |-> "literal", w |-> 7, whole |-> encode_literal_huffman_encoded(s)] :
              s \in CutLiterals }
    \cup { [kind |-> "var", w |-> 0, whole |-> encode_u64(n)] :
              n \in { u \in U64Values : Len(encode_u64(u)) >= 2 } }

InitCut ==
    /\ cutPc = "idle"
    /\ cutInput = <<>>
    /\ cutRead = <<>>

\* the reader holds the first k bytes of an encoding and nothing more
CutGive ==
    /\ cutPc = "idle"
    /\ \E c \in CutWholes :
         \E k \in 1..(Len(c.whole) - 1) :
            cutInput' = [kind |-> c.kind, w |-> c.w, whole |-> c.whole,
                         bytes |-> SubSeq(c.whole, 1, k)]
    /\ cutPc' = "given"
    /\ UNCHANGED cutRead

\* the primitive reads from the reader.  decode_integer returns a usize,
\* decode_literal_to_vec a Vec<u8> and decode_var a u64: a value comes back in
\* every case.  Instructions::decode around the first two keeps no errors;
\* DataDecoder::decode around decode_var keeps those of check_length.
CutRead ==
    /\ cutPc = "given"
    /\ cutRead' =
         CASE cutInput.kind = "integer" ->
                 [value |-> Some(ReadPrefixed(cutInput.w, cutInput.bytes).v), err |-> {}]
           [] cutInput.kind = "literal" ->
                 [value |-> Some(decode_literal_to_vec(cutInput.bytes).v), err |-> {}]
           [] cutInput.kind = "var" ->
                 [value |-> Some(decode_var(cutInput.bytes).v),
                  err |-> H3DataDecoderDecode(<<0>> \o cutInput.bytes).err]
    /\ cutPc' = "read"
    /\ UNCHANGED cutInput

NextCut ==
    \/ CutGive
    \/ CutRead

\* C24: when the input ends in the middle of a prefixed integer, a string
\* literal or a variable-length integer, the primitive returns none and the
\* decoder around it records LengthShortage.
C24_TruncatedIsNone ==
    cutPc = "read" => /\ cutRead.value = None
                      /\ "LengthShortage" \in cutRead.err

-----------------------------------------------------------------------------
(* HTTP/2 frames that carry field blocks: h2/frame/mod.rs                  *)

FRAME_HEADER_LENGTH == 9

MAX_FRAME_LENGTH == 16777215

HEADERS_FRAME_TYPE == 1

PUSH_PROMISE_FRAME_TYPE == 5

CONTINUATION_FRAME_TYPE == 9

UNUSED_FLAGS == 0

PADDED_FLAG == 8

END_STREAM_FLAG == 1

PRIORITY_FLAG == 32

END_HEADERS_FLAG == 4

RESERVED == 127

EXCLUSIVE == 128

check_capacity(capacity) ==
    IF capacity = 0 THEN DEFAULT_CAPACITY
    ELSE IF capacity < MAX_FRAME_LENGTH THEN capacity
    ELSE MAX_FRAME_LENGTH

\* A u32 is held as the integer with the same 32 bits: a value v at or above
\* 2^31 is the negative v - 2^32, as in an i32.  Top(n) is the u32 2^31 + n.
Top(n) == (n - 2147483647) - 1

\* the low 31 bits of a u32
Low31(n) == IF n < 0 THEN (n + 2147483647) + 1 ELSE n

\* u32::to_be_bytes
to_be_bytes(n) ==
    <<(IF n < 0 THEN 128 ELSE 0) + Low31(n) \div 16777216,
      (Low31(n) \div 65536) % 256, (Low31(n) \div 256) % 256, Low31(n) % 256>>

\* u32::from_be_bytes
from_be_bytes(b) ==
    LET low == (((b[1] % 128) * 256 + b[2]) * 256 + b[3]) * 256 + b[4]
    IN  IF b[1] >= 128 THEN Top(low) ELSE low

fill_header(length, frame_type, flags, stream_identifier) ==
    LET a == to_be_bytes(length)
        b == to_be_bytes(stream_identifier)
    IN  SubSeq(a, 2, 4) \o <<frame_type, flags, BitAnd(b[1], RESERVED)>> \o SubSeq(b, 2, 4)

fill_priority(exclusive, stream_dependency, weight) ==
    LET a == to_be_bytes(stream_dependency)
    IN  <<IF exclusive THEN BitOr(a[1], EXCLUSIVE) ELSE BitAnd(a[1], RESERVED)>>
            \o SubSeq(a, 2, 4) \o <<weight>>

fill_stream_id(stream_id) ==
    LET a == to_be_bytes(stream_id)
    IN  <<BitAnd(a[1], RESERVED)>> \o SubSeq(a, 2, 4)

padded(a, b) == IF b >= MAX_FRAME_LENGTH THEN FALSE ELSE a

length(a) == IF a <= MAX_FRAME_LENGTH THEN a ELSE MAX_FRAME_LENGTH

\* pad_length(a, b): the frame length and the pad length written
pad_length(a, b) ==
    IF a < MAX_FRAME_LENGTH
    THEN IF a + b <= MAX_FRAME_LENGTH THEN <<a + b, b>>
         ELSE <<MAX_FRAME_LENGTH, (MAX_FRAME_LENGTH - a) % 256>>
    ELSE <<MAX_FRAME_LENGTH, 0>>

Repeat(cnt, o) == [i \in 1..cnt |-> o]

\* HeadersEncoder::new
HeadersEncoderNew(stream_identifier, capacity) ==
    [kind |-> "Headers", stream_identifier |-> stream_identifier,
     priority |-> FALSE, padded |-> FALSE, end_headers |-> FALSE, end_stream |-> FALSE,
     pad_length |-> 0, exclusive |-> FALSE, stream_dependency |-> 0, weight |-> 0,
     promised_stream_id |-> 0,
     capacity |-> check_capacity(capacity), field_block_fragment |-> <<>>]

\* PushPromiseEncoder::new
PushPromiseEncoderNew(stream_identifier, capacity) ==
    [kind |-> "PushPromise", stream_identifier |-> stream_identifier,
     priority |-> FALSE, padded |-> FALSE, end_headers |-> FALSE, end_stream |-> FALSE,
     pad_length |-> 0, exclusive |-> FALSE, stream_dependency |-> 0, weight |-> 0,
     promised_stream_id |-> 0,
     capacity |-> check_capacity(capacity), field_block_fragment |-> <<>>]

\* ContinuationEncoder::new
ContinuationEncoderNew(stream_identifier, capacity) ==
    [kind |-> "Continuation", stream_identifier |-> stream_identifier,
     priority |-> FALSE, padded |-> FALSE, end_headers |-> FALSE, end_stream |-> FALSE,
     pad_length |-> 0, exclusive |-> FALSE, stream_dependency |-> 0, weight |-> 0,
     promised_stream_id |-> 0,
     capacity |-> check_capacity(capacity), field_block_fragment |-> <<>>]

\* HeadersEncoder::flags
HeadersFlags(e) ==
    (IF e.priority THEN PRIORITY_FLAG ELSE 0) + (IF e.padded THEN PADDED_FLAG ELSE 0)
        + (IF e.end_headers THEN END_HEADERS_FLAG ELSE 0)
        + (IF e.end_stream THEN END_STREAM_FLAG ELSE 0)

\* PushPromiseEncoder::flags
PushPromiseFlags(e) ==
    (IF e.padded THEN PADDED_FLAG ELSE 0) + (IF e.end_headers THEN END_HEADERS_FLAG ELSE 0)

\* ContinuationEncoder::flags
ContinuationFlags(e) == IF e.end_headers THEN END_HEADERS_FLAG ELSE UNUSED_FLAGS

\* A Vec<u8> that may be as long as a frame allows is held as runs: a sequence
\* of <<cnt, o>>, cnt copies of the byte o, in order.
RunsOf(bytes) == [i \in 1..Len(bytes) |-> <<1, bytes[i]>>]

RECURSIVE RunsLen(_)
RunsLen(r) == IF r = <<>> THEN 0 ELSE r[1][1] + RunsLen(Tail(r))

\* the bytes the runs stand for
RECURSIVE Expand(_)
Expand(r) == IF r = <<>> THEN <<>> ELSE Repeat(r[1][1], r[1][2]) \o Expand(Tail(r))

\* the byte at offset i (from 0) of the runs
RECURSIVE RunsAt(_, _)
RunsAt(r, i) == IF i < r[1][1] THEN r[1][2] ELSE RunsAt(Tail(r), i - r[1][1])

\* HeadersEncoder::encode; field_block_fragment held as runs, output as runs
HeadersEncodeRuns(e) ==
    LET flags == HeadersFlags(e)
        stream == e.stream_identifier
        prio == IF e.priority
                THEN fill_priority(e.exclusive, e.stream_dependency, e.weight) ELSE <<>>
        n == Len(prio) + RunsLen(e.field_block_fragment)
    IN  IF padded(e.padded, n)
        THEN LET p == pad_length(1 + n, e.pad_length)
             IN  RunsOf(fill_header(p[1], HEADERS_FRAME_TYPE, flags, stream) \o <<p[2]>>
                        \o prio)
                     \o e.field_block_fragment \o << <<p[2], 0>> >>
        ELSE RunsOf(fill_header(length(n), HEADERS_FRAME_TYPE, flags, stream) \o prio)
                 \o e.field_block_fragment

\* PushPromiseEncoder::encode; field_block_fragment held as runs, output as runs
PushPromiseEncodeRuns(e) ==
    LET flags == PushPromiseFlags(e)
        stream == e.stream_identifier
        n == 4 + RunsLen(e.field_block_fragment)
    IN  IF padded(e.padded, n)
        THEN LET p == pad_length(1 + n, e.pad_length)
             IN  RunsOf(fill_header(p[1], PUSH_PROMISE_FRAME_TYPE, flags, stream)
                        \o <<p[2]>> \o fill_stream_id(e.promised_stream_id))
                     \o e.field_block_fragment \o << <<p[2], 0>> >>
        ELSE RunsOf(fill_header(length(n), PUSH_PROMISE_FRAME_TYPE, flags, stream)
                    \o fill_stream_id(e.promised_stream_id))
                 \o e.field_block_fragment

\* ContinuationEncoder::encode; field_block_fragment held as runs, output as runs
ContinuationEncodeRuns(e) ==
    RunsOf(fill_header(length(RunsLen(e.field_block_fragment)), CONTINUATION_FRAME_TYPE,
                       ContinuationFlags(e), e.stream_identifier))
        \o e.field_block_fragment

\* the same encoders over a fragment given as bytes, writing bytes
HeadersEncode(e) ==
    Expand(HeadersEncodeRuns([e EXCEPT !.field_block_fragment = RunsOf(@)]))

PushPromiseEncode(e) ==
    Expand(PushPromiseEncodeRuns([e EXCEPT !.field_block_fragment = RunsOf(@)]))

ContinuationEncode(e) ==
    Expand(ContinuationEncodeRuns([e EXCEPT !.field_block_fragment = RunsOf(@)]))

\* i & f == f
bit_eq(i, f) == BitAnd(i, f) = f

get_31_uint(o) == from_be_bytes(<<BitAnd(o[1], RESERVED), o[2], o[3], o[4]>>)

\* get_priority: exclusive, stream dependency, weight
get_priority(o) == <<bit_eq(o[1], EXCLUSIVE), get_31_uint(SubSeq(o, 1, 4)), o[5]>>

\* get_header: length, type, flags, stream identifier
get_header(o) ==
    <<from_be_bytes(<<0, o[1], o[2], o[3]>>), o[4], o[5], get_31_uint(SubSeq(o, 6, 9))>>

\* check_length: the frame length the header announces, and the error if the
\* buffer is shorter or longer
check_length(len, v_len) ==
    LET f_len == len + FRAME_HEADER_LENGTH
    IN  [f_len |-> f_len,
         err |-> IF v_len = f_len THEN {}
                 ELSE IF v_len < f_len THEN {"LengthShortage"} ELSE {"LengthExcess"}]

\* slice.get(a..b): None when the range is not inside the slice
SliceGet(v, a, b) == IF a <= b /\ b <= Len(v) THEN Some(SubSeq(v, a + 1, b)) ELSE None

\* HeadersDecoder::decode, with field_block_fragment() evaluated
HeadersDecode(v) ==
    LET h == get_header(v)
        c == check_length(h[1], Len(v))
        flags == h[3]
        isPadded == bit_eq(flags, PADDED_FLAG)
        isPriority == bit_eq(flags, PRIORITY_FLAG)
        padLength == IF isPadded /\ Len(v) > 9 THEN v[10] ELSE 0
        first == FRAME_HEADER_LENGTH + (IF isPadded THEN 1 ELSE 0)
                     + (IF isPriority THEN 5 ELSE 0)
        last == IF isPadded /\ Len(v) > 9
                THEN (IF c.f_len >= padLength THEN c.f_len - padLength ELSE 0)
                ELSE c.f_len
        short == \/ isPadded /\ ~(Len(v) > 9)
                 \/ isPriority /\ isPadded /\ ~(Len(v) > 14)
                 \/ isPriority /\ ~isPadded /\ ~(Len(v) > 13)
        prio == IF isPriority /\ isPadded /\ Len(v) > 14
                THEN get_priority(SubSeq(v, 11, 15))
                ELSE IF isPriority /\ ~isPadded /\ Len(v) > 13
                THEN get_priority(SubSeq(v, 10, 14))
                ELSE <<FALSE, 0, 0>>
    IN  [kind |-> "Headers", length |-> h[1], stream_identifier |-> h[4],
         priority |-> isPriority, padded |-> isPadded,
         end_headers |-> bit_eq(flags, END_HEADERS_FLAG),
         end_stream |-> bit_eq(flags, END_STREAM_FLAG),
         pad_length |-> padLength,
         exclusive |-> prio[1], stream_dependency |-> prio[2], weight |-> prio[3],
         field_block_fragment |-> SliceGet(v, first, last),
         err |-> c.err \cup (IF short THEN {"LengthShortage"} ELSE {})]

\* ContinuationDecoder::decode, with field_block_fragment() evaluated
ContinuationDecode(v) ==
    LET h == get_header(v)
        c == check_length(h[1], Len(v))
    IN  [kind |-> "Continuation", length |-> h[1], stream_identifier |-> h[4],
         end_headers |-> bit_eq(h[3], END_HEADERS_FLAG),
         field_block_fragment |-> SliceGet(v, FRAME_HEADER_LENGTH, Len(v)),
         err |-> c.err]

\* PushPromiseDecoder::decode, with field_block_fragment() evaluated
PushPromiseDecode(v) ==
    LET h == get_header(v)
        c == check_length(h[1], Len(v))
        isPadded == bit_eq(h[3], PADDED_FLAG)
        padLength == IF isPadded /\ Len(v) > 9 THEN v[10] ELSE 0
        first == FRAME_HEADER_LENGTH + (IF isPadded THEN 1 ELSE 0)
        last == IF isPadded /\ Len(v) > 9
                THEN (IF c.f_len >= padLength THEN c.f_len - padLength ELSE 0)
                ELSE c.f_len
    IN  [kind |-> "PushPromise", length |-> h[1], stream_identifier |-> h[4],
         padded |-> isPadded, end_headers |-> bit_eq(h[3], END_HEADERS_FLAG),
         pad_length |-> padLength,
         promised_stream_id |-> IF ~isPadded /\ Len(v) >= 13
                                THEN get_31_uint(SubSeq(v, 10, 13)) ELSE 0,
         field_block_fragment |-> SliceGet(v, first, last),
         err |-> c.err \cup (IF \/ isPadded /\ ~(Len(v) > 9)
                                \/ ~isPadded /\ Len(v) < 13
                             THEN {"LengthShortage"} ELSE {})]

-----------------------------------------------------------------------------
(* The other HTTP/2 frames, and FrameDecoder: h2/frame/mod.rs              *)

DATA_FRAME_TYPE == 0

PRIORITY_FRAME_TYPE == 2

RST_STREAM_FRAME_TYPE == 3

SETTINGS_FRAME_TYPE == 4

PING_FRAME_TYPE == 6

GOAWAY_FRAME_TYPE == 7

WINDOW_UPDATE_FRAME_TYPE == 8

ACK_FLAG == 1

STREAM_IDENTIFIER_ZERO == 0

PRIORITY_LENGTH == 5

RST_STREAM_LENGTH == 4

PING_LENGTH == 8

WINDOW_UPDATE_LENGTH == 4

\* A u64 is held as its two 32-bit words, high word first.
\* u64::to_be_bytes
to_be_bytes_u64(n) == to_be_bytes(n[1]) \o to_be_bytes(n[2])

\* u64::from_be_bytes
from_be_bytes_u64(b) == <<from_be_bytes(SubSeq(b, 1, 4)), from_be_bytes(SubSeq(b, 5, 8))>>

\* DataEncoder::new; data is held as runs
DataEncoderNew(stream_identifier) ==
    [kind |-> "Data", stream_identifier |-> stream_identifier, padded |-> FALSE,
     end_stream |-> FALSE, pad_length |-> 0, data |-> <<>>]

\* DataEncoder::flags
DataFlags(e) ==
    (IF e.padded THEN PADDED_FLAG ELSE 0) + (IF e.end_stream THEN END_STREAM_FLAG ELSE 0)

\* DataEncoder::encode, output as runs
DataEncodeRuns(e) ==
    LET flags == DataFlags(e)
        stream == e.stream_identifier
        n == RunsLen(e.data)
    IN  IF padded(e.padded, n)
        THEN LET p == pad_length(1 + n, e.pad_length)
             IN  RunsOf(fill_header(p[1], DATA_FRAME_TYPE, flags, stream) \o <<p[2]>>)
                     \o e.data \o << <<p[2], 0>> >>
        ELSE RunsOf(fill_header(length(n), DATA_FRAME_TYPE, flags, stream)) \o e.data

\* PriorityEncoder::new
PriorityEncoderNew(stream_identifier) ==
    [kind |-> "Priority", stream_identifier |-> stream_identifier, exclusive |-> FALSE,
     stream_dependency |-> 0, weight |-> 0]

\* PriorityEncoder::encode
PriorityEncode(e) ==
    fill_header(PRIORITY_LENGTH, PRIORITY_FRAME_TYPE, UNUSED_FLAGS, e.stream_identifier)
        \o fill_priority(e.exclusive, e.stream_dependency, e.weight)

\* RstStreamEncoder::new
RstStreamEncoderNew(stream_identifier) ==
    [kind |-> "RstStream", stream_identifier |-> stream_identifier, error_code |-> 0]

\* RstStreamEncoder::encode
RstStreamEncode(e) ==
    fill_header(RST_STREAM_LENGTH, RST_STREAM_FRAME_TYPE, UNUSED_FLAGS, e.stream_identifier)
        \o to_be_bytes(e.error_code)

\* SettingsEncoder::new; setting is held as runs
SettingsEncoderNew == [kind |-> "Settings", ack |-> FALSE, setting |-> <<>>]

\* SettingsEncoder::flags
SettingsFlags(e) == IF e.ack THEN ACK_FLAG ELSE UNUSED_FLAGS

\* SettingsEncoder::encode, output as runs
SettingsEncodeRuns(e) ==
    RunsOf(fill_header(length(RunsLen(e.setting)), SETTINGS_FRAME_TYPE, SettingsFlags(e),
                       STREAM_IDENTIFIER_ZERO))
        \o e.setting

\* PingEncoder::new
PingEncoderNew == [kind |-> "Ping", ack |-> FALSE, opaque_data |-> <<0, 0>>]

\* PingEncoder::flags
PingFlags(e) == IF e.ack THEN ACK_FLAG ELSE UNUSED_FLAGS

\* PingEncoder::encode
PingEncode(e) ==
    fill_header(PING_LENGTH, PING_FRAME_TYPE, PingFlags(e), STREAM_IDENTIFIER_ZERO)
        \o to_be_bytes_u64(e.opaque_data)

\* GoawayEncoder::new; additional_debug_data is held as runs
GoawayEncoderNew ==
    [kind |-> "Goaway", last_stream_id |-> 0, error_code |-> 0,
     additional_debug_data |-> <<>>]

\* GoawayEncoder::encode, output as runs
GoawayEncodeRuns(e) ==
    RunsOf(fill_header(length(8 + RunsLen(e.additional_debug_data)), GOAWAY_FRAME_TYPE,
                       UNUSED_FLAGS, STREAM_IDENTIFIER_ZERO)
           \o fill_stream_id(e.last_stream_id) \o to_be_bytes(e.error_code))
        \o e.additional_debug_data

\* WindowUpdateEncoder::new
WindowUpdateEncoderNew(stream_identifier) ==
    [kind |-> "WindowUpdate", stream_identifier |-> stream_identifier,
     window_size_increment |-> 0]

\* WindowUpdateEncoder::encode
WindowUpdateEncode(e) ==
    fill_header(WINDOW_UPDATE_LENGTH, WINDOW_UPDATE_FRAME_TYPE, UNUSED_FLAGS,
                e.stream_identifier)
        \o to_be_bytes(e.window_size_increment)

\* encode of whichever encoder e is, output as runs
EncodeRuns(e) ==
    CASE e.kind = "Data" -> DataEncodeRuns(e)
      [] e.kind = "Headers" -> HeadersEncodeRuns(e)
      [] e.kind = "Priority" -> RunsOf(PriorityEncode(e))
      [] e.kind = "RstStream" -> RunsOf(RstStreamEncode(e))
      [] e.kind = "Settings" -> SettingsEncodeRuns(e)
      [] e.kind = "PushPromise" -> PushPromiseEncodeRuns(e)
      [] e.kind = "Ping" -> RunsOf(PingEncode(e))
      [] e.kind = "Goaway" -> GoawayEncodeRuns(e)
      [] e.kind = "WindowUpdate" -> RunsOf(WindowUpdateEncode(e))
      [] e.kind = "Continuation" -> ContinuationEncodeRuns(e)

\* DataDecoder::decode with the pad length left out of the end of the data
DataDecode_keep_padding(v) ==
    LET h == get_header(v)
        c == check_length(h[1], Len(v))
        isPadded == bit_eq(h[3], PADDED_FLAG)
        padLength == IF isPadded /\ Len(v) > 9 THEN v[10] ELSE 0
        first == FRAME_HEADER_LENGTH + (IF isPadded THEN 1 ELSE 0)
    IN  [kind |-> "Data", length |-> h[1], stream_identifier |-> h[4],
         padded |-> isPadded, end_stream |-> bit_eq(h[3], END_STREAM_FLAG),
         pad_length |-> padLength, data |-> SliceGet(v, first, c.f_len),
         err |-> c.err \cup (IF isPadded /\ ~(Len(v) > 9) THEN {"LengthShortage"} ELSE {})]

\* DataDecoder::decode, with data() evaluated
DataDecode(v) ==
    LET h == get_header(v)
        c == check_length(h[1], Len(v))
        isPadded == bit_eq(h[3], PADDED_FLAG)
        padLength == IF isPadded /\ Len(v) > 9 THEN v[10] ELSE 0
        first == FRAME_HEADER_LENGTH + (IF isPadded THEN 1 ELSE 0)
        last == IF isPadded /\ Len(v) > 9
                THEN (IF c.f_len >= padLength THEN c.f_len - padLength ELSE 0)
                ELSE c.f_len
    IN  [kind |-> "Data", length |-> h[1], stream_identifier |-> h[4],
         padded |-> isPadded, end_stream |-> bit_eq(h[3], END_STREAM_FLAG),
         pad_length |-> padLength, data |-> SliceGet(v, first, last),
         err |-> c.err \cup (IF isPadded /\ ~(Len(v) > 9) THEN {"LengthShortage"} ELSE {})]

\* PriorityDecoder::decode
PriorityDecode(v) ==
    LET h == get_header(v)
        c == check_length(PRIORITY_LENGTH, Len(v))
        p == IF Len(v) >= 14 THEN get_priority(SubSeq(v, 10, 14)) ELSE <<FALSE, 0, 0>>
    IN  [kind |-> "Priority", length |-> h[1], stream_identifier |-> h[4],
         exclusive |-> p[1], stream_dependency |-> p[2], weight |-> p[3],
         err |-> c.err \cup (IF Len(v) >= 14 THEN {} ELSE {"LengthShortage"})]

\* RstStreamDecoder::decode
RstStreamDecode(v) ==
    LET h == get_header(v)
        c == check_length(RST_STREAM_LENGTH, Len(v))
    IN  [kind |-> "RstStream", length |-> h[1], stream_identifier |-> h[4],
         error_code |-> IF Len(v) >= 13 THEN from_be_bytes(SubSeq(v, 10, 13)) ELSE 0,
         err |-> c.err \cup (IF Len(v) >= 13 THEN {} ELSE {"LengthShortage"})]

\* SettingsDecoder::decode, with setting() evaluated
SettingsDecode(v) ==
    LET h == get_header(v)
        c == check_length(h[1], Len(v))
    IN  [kind |-> "Settings", length |-> h[1], stream_identifier |-> h[4],
         ack |-> bit_eq(h[3], ACK_FLAG),
         setting |-> SliceGet(v, FRAME_HEADER_LENGTH, Len(v)), err |-> c.err]

\* PingDecoder::decode
PingDecode(v) ==
    LET h == get_header(v)
        c == check_length(PING_LENGTH, Len(v))
    IN  [kind |-> "Ping", length |-> h[1], stream_identifier |-> h[4],
         ack |-> bit_eq(h[3], ACK_FLAG),
         opaque_data |-> IF Len(v) >= 17 THEN from_be_bytes_u64(SubSeq(v, 10, 17)) ELSE <<0, 0>>,
         err |-> c.err]

\* GoawayDecoder::decode, with additional_debug_data() evaluated
GoawayDecode(v) ==
    LET h == get_header(v)
        c == check_length(h[1], Len(v))
    IN  [kind |-> "Goaway", length |-> h[1], stream_identifier |-> h[4],
         last_stream_id |-> IF Len(v) >= 13 THEN get_31_uint(SubSeq(v, 10, 13)) ELSE 0,
         error_code |-> IF Len(v) >= 17 THEN from_be_bytes(SubSeq(v, 14, 17)) ELSE 0,
         additional_debug_data |-> SliceGet(v, 17, Len(v)),
         err |-> c.err \cup (IF Len(v) >= 17 THEN {} ELSE {"LengthShortage"})]

\* WindowUpdateDecoder::decode
WindowUpdateDecode(v) ==
    LET h == get_header(v)
        c == check_length(WINDOW_UPDATE_LENGTH, Len(v))
    IN  [kind |-> "WindowUpdate", length |-> h[1], stream_identifier |-> h[4],
         window_size_increment |-> IF Len(v) >= 13 THEN get_31_uint(SubSeq(v, 10, 13))
                                   ELSE 0,
         err |-> c.err]

\* FrameDecoder::Invalid
Invalid(e) == [kind |-> "Invalid", err |-> {e}]

\* FrameDecoder::decode
FrameDecoderDecode(buf) ==
    IF Len(buf) >= FRAME_HEADER_LENGTH
    THEN CASE buf[4] = DATA_FRAME_TYPE -> DataDecode(buf)
           [] buf[4] = HEADERS_FRAME_TYPE -> HeadersDecode(buf)
           [] buf[4] = PRIORITY_FRAME_TYPE ->
                 IF Len(buf) < FRAME_HEADER_LENGTH + PRIORITY_LENGTH
                 THEN Invalid("LengthShortage") ELSE PriorityDecode(buf)
           [] buf[4] = RST_STREAM_FRAME_TYPE ->
                 IF Len(buf) < FRAME_HEADER_LENGTH + RST_STREAM_LENGTH
                 THEN Invalid("LengthShortage") ELSE RstStreamDecode(buf)
           [] buf[4] = SETTINGS_FRAME_TYPE -> SettingsDecode(buf)
           [] buf[4] = PUSH_PROMISE_FRAME_TYPE ->
                 IF Len(buf) < 13 THEN Invalid("LengthShortage") ELSE PushPromiseDecode(buf)
           [] buf[4] = PING_FRAME_TYPE ->
                 IF Len(buf) < FRAME_HEADER_LENGTH + PING_LENGTH
                 THEN Invalid("LengthShortage") ELSE PingDecode(buf)
           [] buf[4] = GOAWAY_FRAME_TYPE ->
                 IF Len(buf) < 17 THEN Invalid("LengthShortage") ELSE GoawayDecode(buf)
           [] buf[4] = WINDOW_UPDATE_FRAME_TYPE ->
                 IF Len(buf) < FRAME_HEADER_LENGTH + WINDOW_UPDATE_LENGTH
                 THEN Invalid("LengthShortage") ELSE WindowUpdateDecode(buf)
           [] buf[4] = CONTINUATION_FRAME_TYPE -> ContinuationDecode(buf)
           [] OTHER -> Invalid("InvalidFrameType")
    ELSE Invalid("LengthShortage")
-----------------------------------------------------------------------------
(* h2/huffman/mod.rs, as the code computes: the 64-bit shift buffer of     *)
(* encode_huffman and the walk of decode_huffman over the state array, one *)
(* nibble at a time.  A u64 is its 8 bytes, most significant first.        *)

\* HUFFMAN_CODE[256], the end-of-string symbol: thirty one-bits
HUFFMAN_EOS == <<1073741823, 30>>

\* the bytes of a 64-bit sequence
BytesOfBits64(bits) ==
    <<ValueOf(SubSeq(bits, 1, 8)), ValueOf(SubSeq(bits, 9, 16)), ValueOf(SubSeq(bits, 17, 24)),
      ValueOf(SubSeq(bits, 25, 32)), ValueOf(SubSeq(bits, 33, 40)), ValueOf(SubSeq(bits, 41, 48)),
      ValueOf(SubSeq(bits, 49, 56)), ValueOf(SubSeq(bits, 57, 64))>>

\* (h as u64) << k for a code h of n bits, n + k <= 64
CodeShifted(h, n, k) == BytesOfBits64(Repeat(64 - n - k, 0) \o BitsOf(h, n) \o Repeat(k, 0))

\* b << 8 on 64 bits
ShiftLeft8(b) == <<b[2], b[3], b[4], b[5], b[6], b[7], b[8], 0>>

\* a | b
Or64(a, b) ==
    <<BitOr(a[1], b[1]), BitOr(a[2], b[2]), BitOr(a[3], b[3]), BitOr(a[4], b[4]),
      BitOr(a[5], b[5]), BitOr(a[6], b[6]), BitOr(a[7], b[7]), BitOr(a[8], b[8])>>

\* (1 << count) - 1, count < 64
LowOnes64(count) == BytesOfBits64(Repeat(64 - count, 0) \o Repeat(count, 1))

\* (buffer >> 32) as u8
Byte32(buffer) == buffer[4]

\* the while loop of encode_huffman: a byte leaves while count <= 32
RECURSIVE HuffmanDrain(_, _, _)
HuffmanDrain(buffer, count, out) ==
    IF count <= 32
    THEN HuffmanDrain(ShiftLeft8(buffer), count + 8, Append(out, Byte32(buffer)))
    ELSE [buffer |-> buffer, count |-> count, out |-> out]

\* the for loop of encode_huffman
RECURSIVE HuffmanFor(_, _, _, _)
HuffmanFor(reader, buffer, count, out) ==
    IF reader = <<>> THEN [buffer |-> buffer, count |-> count, out |-> out]
    ELSE LET n == HUFFMAN_CODE[Head(reader)][2]
             h == CodeShifted(HUFFMAN_CODE[Head(reader)][1], n, count - n)
             d == HuffmanDrain(Or64(buffer, h), count - n, out)
         IN  HuffmanFor(Tail(reader), d.buffer, d.count, d.out)

\* encode_huffman with its padding written as zero bits
encode_huffman_writes_zero_padding(reader) ==
    LET f == HuffmanFor(reader, U64Zero, 40, <<>>)
    IN  IF f.count # 40 THEN Append(f.out, Byte32(f.buffer)) ELSE f.out

\* encode_huffman, the bytes put to the writer
encode_huffman_writes(reader) ==
    LET f == HuffmanFor(reader, U64Zero, 40, <<>>)
    IN  IF f.count # 40
        THEN Append(f.out, Byte32(Or64(f.buffer, LowOnes64(f.count))))
        ELSE f.out

\* one entry of DECODE_STATE_ARRAY, as build_decode_state_array makes it: the
\* state is the string of bits read and not yet decoded; with four more bits
\* it either starts with a code, which is cut off and gives the symbol
\* (split_valid_state), or it is the next state, with -1 for no symbol
DecodeState(x, y) ==
    LET t == x \o BitsOf(y, 4)
        hits == { k \in 1..Len(t) : HuffmanSymbolOf(SubSeq(t, 1, k)) # {} }
    IN  IF \E k \in 1..Len(t) : Len(t) >= HUFFMAN_EOS[2] /\ k = HUFFMAN_EOS[2]
                /\ ValueOf(SubSeq(t, 1, k)) = HUFFMAN_EOS[1]
        THEN <<SubSeq(t, HUFFMAN_EOS[2] + 1, Len(t)), 256>>
        ELSE IF hits = {} THEN <<t, -1>>
        ELSE LET k == CHOOSE k \in hits : TRUE
             IN  <<SubSeq(t, k + 1, Len(t)), CHOOSE s \in HuffmanSymbolOf(SubSeq(t, 1, k)) : TRUE>>

\* the for loop of decode_huffman: the high nibble, then the low nibble; the
\* end-of-string symbol ends the call
RECURSIVE DecodeHuffmanFor(_, _, _)
DecodeHuffmanFor(reader, x, out) ==
    IF reader = <<>> THEN out
    ELSE LET i == Head(reader)
             hi == DecodeState(x, i \div 16)
             out1 == IF hi[2] >= 0 /\ hi[2] < 256 THEN Append(out, hi[2]) ELSE out
             lo == DecodeState(hi[1], i % 16)
             out2 == IF lo[2] >= 0 /\ lo[2] < 256 THEN Append(out1, lo[2]) ELSE out1
         IN  IF hi[2] = 256 THEN out
             ELSE IF lo[2] = 256 THEN out1
             ELSE DecodeHuffmanFor(Tail(reader), lo[1], out2)

\* decode_huffman, the bytes put to the writer
decode_huffman_writes(reader) == DecodeHuffmanFor(reader, <<>>, <<>>)

VARIABLES
    hufPc,       \* "idle", "encoded", "decoded"
    hufInput,    \* the byte string s
    hufBytes,    \* what encode_huffman wrote
    hufRead      \* what decode_huffman wrote

hufVars == <<hufPc, hufInput, hufBytes, hufRead>>

\* the length of s, at most
MaxHufLen == 3

\* bytes with codes of 5, 5, 6, 7, 13, 23, 26 and 30 bits
HufBytes == {48, 97, 32, 107, 0, 1, 255, 10}

RECURSIVE HufStrings(_)
HufStrings(n) ==
    IF n = 0 THEN {<<>>}
    ELSE HufStrings(n - 1) \cup { Append(s, b) : s \in { t \in HufStrings(n - 1) : Len(t) = n - 1 }, b \in HufBytes }

InitHuf ==
    /\ hufPc = "idle"
    /\ hufInput = <<>>
    /\ hufBytes = <<>>
    /\ hufRead = <<>>

HufEncode ==
    /\ hufPc = "idle"
    /\ \E s \in HufStrings(MaxHufLen) :
          /\ hufInput' = s
          /\ hufBytes' = encode_huffman_writes(s)
    /\ hufPc' = "encoded"
    /\ UNCHANGED hufRead

HufDecode ==
    /\ hufPc = "encoded"
    /\ hufRead' = decode_huffman_writes(hufBytes)
    /\ hufPc' = "decoded"
    /\ UNCHANGED <<hufInput, hufBytes>>

NextHuf ==
    \/ HufEncode
    \/ HufDecode

\* C33: decode_huffman(encode_huffman(s)) is s; the encoding is the codes of
\* the bytes of s packed most significant bit first, the last byte filled up
\* with fewer than 8 one-bits.
C33_HuffmanRoundTrip ==
    /\ hufPc \in {"encoded", "decoded"} =>
          /\ hufBytes = PackBits(HuffmanBits(hufInput))
          /\ Len(hufBytes) * 8 - Len(HuffmanBits(hufInput)) \in 0..7
    /\ hufPc = "decoded" => hufRead = hufInput

\* a string whose codes end inside a byte, with a 30-bit code in it, was
\* encoded and decoded
C33_Witness ==
    /\ hufPc = "decoded"
    /\ hufInput = <<97, 10, 32>>
    /\ hufBytes = <<31, 255, 255, 255, 138, 127>>
    /\ hufRead = hufInput

-----------------------------------------------------------------------------
(* Frames in use: an encoder is set up and encoded; the bytes, or a slice  *)
(* put together by a peer, are handed to FrameDecoder::decode.             *)

VARIABLES frmPc, frmEncoder, frmRuns, frmSlice, frmDecoder

frmVars == <<frmPc, frmEncoder, frmRuns, frmSlice, frmDecoder>>

\* longest encoding that is written out byte by byte and decoded
MaxSliceLen == 280

\* longest payload of a slice put together by hand
MaxPayload == 10

\* u32 values given to the setters: small, 2^31 - 1, 2^31 + 5, 2^32 - 1
FrmU32 == {1, 2147483647, Top(5), Top(2147483647)}

FrmPadLengths == {0, 3, 255}

\* content sizes: small ones and the ones around the frame cap
FrmSizes ==
    {0, 1, 3, MAX_FRAME_LENGTH - 260, MAX_FRAME_LENGTH - 6, MAX_FRAME_LENGTH - 5,
     MAX_FRAME_LENGTH - 4, MAX_FRAME_LENGTH - 2, MAX_FRAME_LENGTH - 1, MAX_FRAME_LENGTH,
     MAX_FRAME_LENGTH + 1}

\* a content of n bytes: 5, 6, 7 for the small ones, n times 9 otherwise
FrmContent(n) == IF n <= 3 THEN RunsOf(SubSeq(<<5, 6, 7>>, 1, n)) ELSE << <<n, 9>> >>

\* declared lengths of the slices put together by hand
FrmDeclared == {0, 1, 4, 5, 8, 9}

\* flags of the slices put together by hand
FrmFlags == {0, PADDED_FLAG, PRIORITY_FLAG, PADDED_FLAG + PRIORITY_FLAG}

InitFrm ==
    /\ frmPc = "idle"
    /\ frmEncoder = None
    /\ frmRuns = <<>>
    /\ frmSlice = <<>>
    /\ frmDecoder = None

\* an encoder has been set up and encode has run
FrmEncoded(e) ==
    /\ frmPc = "idle"
    /\ frmEncoder' = e
    /\ frmRuns' = EncodeRuns(e)
    /\ frmPc' = "encoded"
    /\ UNCHANGED <<frmSlice, frmDecoder>>

FrmEncodeData ==
    \E s \in FrmU32, pd \in BOOLEAN, es \in BOOLEAN, p \in FrmPadLengths, n \in FrmSizes :
        FrmEncoded([DataEncoderNew(s) EXCEPT !.padded = pd, !.end_stream = es,
                                             !.pad_length = p, !.data = FrmContent(n)])

FrmEncodeHeaders ==
    \E s \in {1, Top(5)}, pr \in BOOLEAN, pd \in BOOLEAN, eh \in BOOLEAN,
       p \in FrmPadLengths, x \in BOOLEAN, d \in {3, Top(2147483647)}, n \in FrmSizes :
        FrmEncoded([HeadersEncoderNew(s, 0) EXCEPT
                        !.priority = pr, !.padded = pd, !.end_headers = eh,
                        !.end_stream = ~eh, !.pad_length = p, !.exclusive = x,
                        !.stream_dependency = d, !.weight = 16,
                        !.field_block_fragment = FrmContent(n)])

FrmEncodePriority ==
    \E s \in FrmU32, x \in BOOLEAN, d \in FrmU32 :
        FrmEncoded([PriorityEncoderNew(s) EXCEPT !.exclusive = x, !.stream_dependency = d,
                                                 !.weight = 16])

FrmEncodeRstStream ==
    \E s \in FrmU32, c \in FrmU32 :
        FrmEncoded([RstStreamEncoderNew(s) EXCEPT !.error_code = c])

FrmEncodeSettings ==
    \E a \in BOOLEAN, n \in FrmSizes :
        FrmEncoded([SettingsEncoderNew EXCEPT !.ack = a, !.setting = FrmContent(n)])

FrmEncodePushPromise ==
    \E s \in {1, Top(5)}, pd \in BOOLEAN, eh \in BOOLEAN, p \in FrmPadLengths,
       q \in FrmU32, n \in FrmSizes :
        FrmEncoded([PushPromiseEncoderNew(s, 0) EXCEPT
                        !.padded = pd, !.end_headers = eh, !.pad_length = p,
                        !.promised_stream_id = q, !.field_block_fragment = FrmContent(n)])

FrmEncodePing ==
    \E a \in BOOLEAN, d \in {<<0, 0>>, <<1, Top(7)>>} :
        FrmEncoded([PingEncoderNew EXCEPT !.ack = a, !.opaque_data = d])

FrmEncodeGoaway ==
    \E l \in FrmU32, c \in FrmU32, n \in FrmSizes :
        FrmEncoded([GoawayEncoderNew EXCEPT !.last_stream_id = l, !.error_code = c,
                                            !.additional_debug_data = FrmContent(n)])

FrmEncodeWindowUpdate ==
    \E s \in FrmU32, w \in FrmU32 :
        FrmEncoded([WindowUpdateEncoderNew(s) EXCEPT !.window_size_increment = w])

FrmEncodeContinuation ==
    \E s \in FrmU32, eh \in BOOLEAN, n \in FrmSizes :
        FrmEncoded([ContinuationEncoderNew(s, 0) EXCEPT
                        !.end_headers = eh, !.field_block_fragment = FrmContent(n)])

\* FrameDecoder::decode on the bytes the encoder wrote
FrmDecode ==
    /\ frmPc = "encoded"
    /\ RunsLen(frmRuns) <= MaxSliceLen
    /\ frmSlice' = Expand(frmRuns)
    /\ frmDecoder' = FrameDecoderDecode(Expand(frmRuns))
    /\ frmPc' = "decoded"
    /\ UNCHANGED <<frmEncoder, frmRuns>>

\* FrameDecoder::decode on a slice of n bytes: a header declaring length l for
\* frame type t with flags f, then bytes 1, cut or not
FrmDecodeSlice ==
    /\ frmPc = "idle"
    /\ \E t \in 0..10, l \in FrmDeclared, f \in FrmFlags,
          n \in 0..(FRAME_HEADER_LENGTH + MaxPayload) :
         LET v == SubSeq(fill_header(l, t, f, 1) \o Repeat(MaxPayload, 1), 1, n)
         IN  /\ frmSlice' = v
             /\ frmDecoder' = FrameDecoderDecode(v)
    /\ frmPc' = "sliced"
    /\ UNCHANGED <<frmEncoder, frmRuns>>

NextFrm ==
    \/ FrmEncodeData
    \/ FrmEncodeHeaders
    \/ FrmEncodePriority
    \/ FrmEncodeRstStream
    \/ FrmEncodeSettings
    \/ FrmEncodePushPromise
    \/ FrmEncodePing
    \/ FrmEncodeGoaway
    \/ FrmEncodeWindowUpdate
    \/ FrmEncodeContinuation
    \/ FrmDecode
    \/ FrmDecodeSlice

-----------------------------------------------------------------------------
(* Claims about the frame encoders and decoders.                           *)

\* the 24-bit length in the frame header of an encoding
DeclaredLength(r) == from_be_bytes(<<0, RunsAt(r, 0), RunsAt(r, 1), RunsAt(r, 2)>>)

\* the payload bytes written after the frame header
PayloadWritten(r) == RunsLen(r) - FRAME_HEADER_LENGTH

\* C13: for every frame encoder and every content size, the length in the
\* frame header equals the number of payload bytes written after the header
\* and is at most 16,777,215.
C13_LengthIsPayload ==
    frmPc = "encoded" =>
        /\ DeclaredLength(frmRuns) = PayloadWritten(frmRuns)
        /\ DeclaredLength(frmRuns) <= MAX_FRAME_LENGTH

\* the variable-size content of an encoder, as runs
ContentOf(e) ==
    CASE e.kind = "Data" -> e.data
      [] e.kind \in {"Headers", "PushPromise", "Continuation"} -> e.field_block_fragment
      [] e.kind = "Settings" -> e.setting
      [] e.kind = "Goaway" -> e.additional_debug_data
      [] OTHER -> <<>>

\* the bytes of the fixed fields written between pad length and content
FixedOf(e) ==
    CASE e.kind = "Headers" -> IF e.priority THEN PRIORITY_LENGTH ELSE 0
      [] e.kind = "PushPromise" -> 4
      [] e.kind = "Goaway" -> 8
      [] OTHER -> 0

\* the last p bytes of the runs are zero
RECURSIVE RunsTailZeros(_, _)
RunsTailZeros(r, p) ==
    IF p = 0 THEN TRUE
    ELSE IF r = <<>> THEN FALSE
    ELSE LET l == r[Len(r)]
         IN  IF l[1] = 0 THEN RunsTailZeros(DropLast(r), p)
             ELSE IF l[2] # 0 THEN FALSE
             ELSE IF l[1] >= p THEN TRUE
             ELSE RunsTailZeros(DropLast(r), p - l[1])

\* the PADDED flag is set in the frame header of an encoding
PaddedFlagSet(r) == bit_eq(RunsAt(r, 4), PADDED_FLAG)

\* C14: in a DATA, HEADERS or PUSH_PROMISE frame encoded with a content up to
\* the frame cap, a set PADDED flag means the payload begins with a pad-length
\* byte, ends with that many zero bytes and has 1 + pad <= length; the padding
\* asked for is reduced when content plus padding would not fit.
C14_PaddedLayout ==
    (/\ frmPc = "encoded"
     /\ frmEncoder.kind \in {"Data", "Headers", "PushPromise"}
     /\ FixedOf(frmEncoder) + RunsLen(ContentOf(frmEncoder)) <= MAX_FRAME_LENGTH
     /\ PaddedFlagSet(frmRuns))
    => LET pad == RunsAt(frmRuns, FRAME_HEADER_LENGTH)
           n == FixedOf(frmEncoder) + RunsLen(ContentOf(frmEncoder))
       IN  /\ DeclaredLength(frmRuns) = 1 + n + pad
           /\ PayloadWritten(frmRuns) = DeclaredLength(frmRuns)
           /\ DeclaredLength(frmRuns) <= MAX_FRAME_LENGTH
           /\ RunsTailZeros(frmRuns, pad)
           /\ pad = Min(frmEncoder.pad_length, MAX_FRAME_LENGTH - 1 - n)

\* byte b has its high bit clear
HighBitClear(b) == b < 128

\* C15: the reserved high bit is written as zero in the stream identifier of
\* every frame header, the promised stream id of PUSH_PROMISE, the last stream
\* id of GOAWAY and the window size increment of WINDOW_UPDATE, whatever u32
\* the caller gave.
C15_ReservedBitZero ==
    frmPc = "encoded" =>
        /\ HighBitClear(RunsAt(frmRuns, 5))
        /\ frmEncoder.kind = "PushPromise" =>
             HighBitClear(RunsAt(frmRuns,
                 IF PayloadWritten(frmRuns)
                      = 4 + RunsLen(frmEncoder.field_block_fragment)
                 THEN FRAME_HEADER_LENGTH ELSE FRAME_HEADER_LENGTH + 1))
        /\ frmEncoder.kind \in {"Goaway", "WindowUpdate"} =>
             HighBitClear(RunsAt(frmRuns, FRAME_HEADER_LENGTH))

\* a DataEncoder within the limits of the round trip has been encoded and its
\* bytes decoded
DataRoundTrip ==
    /\ frmPc = "decoded"
    /\ frmEncoder.kind = "Data"
    /\ frmEncoder.stream_identifier >= 0
    /\ 1 + RunsLen(frmEncoder.data) + frmEncoder.pad_length <= MAX_FRAME_LENGTH

\* what the round trip gives back apart from the pad length
DataRecovered ==
    /\ frmDecoder.kind = "Data"
    /\ frmDecoder.err = {}
    /\ frmDecoder.stream_identifier = frmEncoder.stream_identifier
    /\ frmDecoder.end_stream = frmEncoder.end_stream
    /\ frmDecoder.padded = frmEncoder.padded
    /\ frmDecoder.data = Some(Expand(frmEncoder.data))

\* C16 as stated: the decoder's pad_length equals the encoder's for every
\* PADDED setting.
C16_AsStated ==
    DataRoundTrip => (DataRecovered /\ frmDecoder.pad_length = frmEncoder.pad_length)

\* C16: encoding a DataEncoder (stream id below 2^31, 1 + len(d) + p <=
\* 16,777,215) and decoding the bytes gives a DataDecoder with no error, the
\* same stream_identifier, end_stream and padded, data() = d, and a pad_length
\* equal to the encoder's when PADDED is set and 0 when it is not.
C16_DataRoundTrip ==
    DataRoundTrip =>
        /\ DataRecovered
        /\ frmDecoder.pad_length = (IF frmEncoder.padded THEN frmEncoder.pad_length ELSE 0)

C16_Witness ==
    /\ DataRoundTrip
    /\ frmEncoder.padded
    /\ frmEncoder.pad_length = 255
    /\ frmEncoder.end_stream
    /\ frmDecoder.pad_length = 255
    /\ frmDecoder.data = Some(<<5, 6, 7>>)

\* the runs without their first k bytes
RECURSIVE RunsDrop(_, _)
RunsDrop(r, k) ==
    IF k = 0 \/ r = <<>> THEN r
    ELSE IF r[1][1] <= k THEN RunsDrop(Tail(r), k - r[1][1])
    ELSE << <<r[1][1] - k, r[1][2]>> >> \o Tail(r)

\* runs with empty runs removed and neighbours of the same byte merged, so
\* that equal byte strings have equal runs
RECURSIVE RunsNorm(_)
RunsNorm(r) ==
    IF r = <<>> THEN <<>>
    ELSE IF r[1][1] = 0 THEN RunsNorm(Tail(r))
    ELSE LET t == RunsNorm(Tail(r))
         IN  IF t # <<>> /\ t[1][2] = r[1][2]
             THEN << <<r[1][1] + t[1][1], r[1][2]>> >> \o Tail(t)
             ELSE <<r[1]>> \o t

\* the payload a HEADERS frame has for encoder e when pad is the pad length
\* written: pad-length byte, priority fields, fragment, padding
HeadersPayload(e, pad) ==
    (IF e.padded THEN << <<1, pad>> >> ELSE <<>>)
    \o (IF e.priority
        THEN RunsOf(<<(IF e.exclusive THEN 128 ELSE 0)
                        + (to_be_bytes(e.stream_dependency)[1] % 128)>>
                    \o SubSeq(to_be_bytes(e.stream_dependency), 2, 4) \o <<e.weight>>)
        ELSE <<>>)
    \o e.field_block_fragment
    \o (IF e.padded THEN << <<pad, 0>> >> ELSE <<>>)

\* the payload written for a HeadersEncoder is in the stated order
HeadersOrder ==
    (frmPc \in {"encoded", "decoded"} /\ frmEncoder.kind = "Headers") =>
        RunsNorm(RunsDrop(frmRuns, FRAME_HEADER_LENGTH))
            = RunsNorm(HeadersPayload(frmEncoder, RunsAt(frmRuns, FRAME_HEADER_LENGTH)))

\* HeadersDecoder gives back the flags and the fragment
HeadersRecovered ==
    /\ frmDecoder.kind = "Headers"
    /\ frmDecoder.priority = frmEncoder.priority
    /\ frmDecoder.padded = frmEncoder.padded
    /\ frmDecoder.end_headers = frmEncoder.end_headers
    /\ frmDecoder.end_stream = frmEncoder.end_stream
    /\ frmDecoder.field_block_fragment = Some(Expand(frmEncoder.field_block_fragment))

\* C17: for every HeadersEncoder setting the payload is, in this order, the
\* pad-length byte (only if padded), the five priority bytes (only if
\* priority), the field block fragment and the zero padding; HeadersDecoder
\* recovers the four flags, pad_length, exclusive, stream_dependency (low 31
\* bits), weight and field_block_fragment for all four padded/priority
\* combinations.
C17_HeadersRoundTrip ==
    /\ HeadersOrder
    /\ (frmPc = "decoded" /\ frmEncoder.kind = "Headers") =>
         /\ HeadersRecovered
         /\ frmDecoder.pad_length = frmEncoder.pad_length
         /\ frmDecoder.exclusive = frmEncoder.exclusive
         /\ frmDecoder.stream_dependency = Low31(frmEncoder.stream_dependency)
         /\ frmDecoder.weight = frmEncoder.weight

\* C18: for every PushPromiseEncoder, padded or not, FrameDecoder::decode of
\* its encoding is a PushPromise decoder with the encoder's promised stream id
\* (low 31 bits), pad length and flags, whose field_block_fragment() is the
\* encoder's fragment, without the promised stream id bytes and the padding.
C18_PushPromiseRoundTrip ==
    (frmPc = "decoded" /\ frmEncoder.kind = "PushPromise") =>
        /\ frmDecoder.kind = "PushPromise"
        /\ frmDecoder.promised_stream_id = Low31(frmEncoder.promised_stream_id)
        /\ frmDecoder.pad_length = frmEncoder.pad_length
        /\ frmDecoder.padded = frmEncoder.padded
        /\ frmDecoder.end_headers = frmEncoder.end_headers
        /\ frmDecoder.field_block_fragment = Some(Expand(frmEncoder.field_block_fragment))

\* the frame types that have a decoder
FrameTypes == DATA_FRAME_TYPE..CONTINUATION_FRAME_TYPE

\* a slice that holds a frame header of a known type has been decoded
KnownFrameDecoded ==
    /\ frmPc \in {"sliced", "decoded"}
    /\ Len(frmSlice) >= FRAME_HEADER_LENGTH
    /\ frmSlice[4] \in FrameTypes

\* 9 plus the length declared in the frame header of the slice
DeclaredEnd(v) == FRAME_HEADER_LENGTH + get_header(v)[1]

\* C19: for every frame type and every input slice the decoder's error set
\* holds LengthShortage exactly when the slice is shorter than 9 plus the
\* declared length, LengthExcess exactly when it is longer, and is empty when
\* the two are equal; a decoder with errors still exposes its accessors.
C19_LengthErrors ==
    KnownFrameDecoded =>
        /\ frmDecoder.kind # "Invalid"
        /\ ("LengthShortage" \in frmDecoder.err) <=> (Len(frmSlice) < DeclaredEnd(frmSlice))
        /\ ("LengthExcess" \in frmDecoder.err) <=> (Len(frmSlice) > DeclaredEnd(frmSlice))
        /\ (Len(frmSlice) = DeclaredEnd(frmSlice)) => frmDecoder.err = {}
-----------------------------------------------------------------------------
(* HTTP/3 frames: h3/frame/mod.rs.  An encoder is a record of its kind, its *)
(* push id (a u64) and its payload Vec; the decoder of a frame keeps the    *)
(* length, the push id and the offset of the payload in the buffer.         *)

H3_DATA_FRAME_TYPE == 0
H3_HEADERS_FRAME_TYPE == 1
H3_CANCEL_PUSH_FRAME_TYPE == 3
H3_SETTINGS_FRAME_TYPE == 4
H3_PUSH_PROMISE_FRAME_TYPE == 5
H3_GOAWAY_FRAME_TYPE == 7
H3_MAX_PUSH_ID_FRAME_TYPE == 13

\* fill_header(frame_type, length, writer): the bytes put
h3_fill_header(frame_type, len) == <<frame_type>> \o encode_u64(U64OfNat(len))

\* DataEncoder::encode, HeadersEncoder::encode, CancelPushEncoder::encode,
\* SettingsEncoder::encode, PushPromiseEncoder::encode, GoawayEncoder::encode
\* and MaxPushIdEncoder::encode: the bytes written
H3FrameEncode(e) ==
    LET push_id == u64_to_var(e.push_id)
    IN  CASE e.kind = "Data" -> h3_fill_header(H3_DATA_FRAME_TYPE, Len(e.payload)) \o e.payload
          [] e.kind = "Headers" ->
                h3_fill_header(H3_HEADERS_FRAME_TYPE, Len(e.payload)) \o e.payload
          [] e.kind = "CancelPush" ->
                h3_fill_header(H3_CANCEL_PUSH_FRAME_TYPE, Len(push_id)) \o push_id
          [] e.kind = "Settings" ->
                h3_fill_header(H3_SETTINGS_FRAME_TYPE, Len(e.payload)) \o e.payload
          [] e.kind = "PushPromise" ->
                h3_fill_header(H3_PUSH_PROMISE_FRAME_TYPE, Len(push_id) + Len(e.payload))
                    \o push_id \o e.payload
          [] e.kind = "Goaway" -> h3_fill_header(H3_GOAWAY_FRAME_TYPE, Len(push_id)) \o push_id
          [] e.kind = "MaxPushId" ->
                h3_fill_header(H3_MAX_PUSH_ID_FRAME_TYPE, Len(push_id)) \o push_id

\* DataDecoder::decode, HeadersDecoder::decode and SettingsDecoder::decode:
\* the length, the offset of what follows it, the length check
H3PayloadDecode(kind, v) ==
    LET d == decode_var(Tail(v))
    IN  [kind |-> kind, length |-> d.v, push_id |-> U64Zero, payload |-> Len(v) - Len(d.rest),
         err |-> h3_check_length(d.v, Len(d.rest))]

\* CancelPushDecoder::decode, GoawayDecoder::decode and
\* MaxPushIdDecoder::decode: the length, its check, then the push id
H3PushIdDecode(kind, v) ==
    LET d == decode_var(Tail(v))
        p == decode_var(d.rest)
    IN  [kind |-> kind, length |-> d.v, push_id |-> p.v, payload |-> Len(v) - Len(p.rest),
         err |-> h3_check_length(d.v, Len(d.rest))]

\* PushPromiseDecoder::decode with the field section placed before the push id
H3PushPromiseDecode_section_first(v) ==
    LET d == decode_var(Tail(v))
        p == decode_var(d.rest)
    IN  [kind |-> "PushPromise", length |-> d.v, push_id |-> p.v,
         payload |-> Len(v) - Len(d.rest), err |-> h3_check_length(d.v, Len(d.rest))]

\* PushPromiseDecoder::decode
H3PushPromiseDecode(v) ==
    LET d == decode_var(Tail(v))
        p == decode_var(d.rest)
    IN  [kind |-> "PushPromise", length |-> d.v, push_id |-> p.v,
         payload |-> Len(v) - Len(p.rest), err |-> h3_check_length(d.v, Len(d.rest))]

\* h3 FrameDecoder::decode
H3FrameDecoderDecode(buf) ==
    IF Len(buf) >= 2
    THEN CASE buf[1] = H3_DATA_FRAME_TYPE -> H3PayloadDecode("Data", buf)
           [] buf[1] = H3_HEADERS_FRAME_TYPE -> H3PayloadDecode("Headers", buf)
           [] buf[1] = H3_CANCEL_PUSH_FRAME_TYPE -> H3PushIdDecode("CancelPush", buf)
           [] buf[1] = H3_SETTINGS_FRAME_TYPE -> H3PayloadDecode("Settings", buf)
           [] buf[1] = H3_PUSH_PROMISE_FRAME_TYPE -> H3PushPromiseDecode(buf)
           [] buf[1] = H3_GOAWAY_FRAME_TYPE -> H3PushIdDecode("Goaway", buf)
           [] buf[1] = H3_MAX_PUSH_ID_FRAME_TYPE -> H3PushIdDecode("MaxPushId", buf)
           [] OTHER -> [kind |-> "Invalid", err |-> {"InvalidFrameType"}]
    ELSE [kind |-> "Invalid", err |-> {"LengthShortage"}]

\* data(), encoded_field_section(), setting(): self.buffer.get(offset..)
H3Payload(d, buf) ==
    IF d.payload <= Len(buf) THEN Some(SubSeq(buf, d.payload + 1, Len(buf))) ELSE None

H3PayloadKinds == {"Data", "Headers", "Settings", "PushPromise"}
H3PushIdKinds == {"CancelPush", "PushPromise", "Goaway", "MaxPushId"}

VARIABLES
    h3fPc,        \* "idle", "encoded", "decoded"
    h3fEncoder,   \* the encoder
    h3fBytes,     \* what encode wrote
    h3fDecoder    \* what FrameDecoder::decode returned

h3fVars == <<h3fPc, h3fEncoder, h3fBytes, h3fDecoder>>

\* the longest payload
MaxH3Payload == 64

\* 0, 63, 64, 16383, 16384, 2^30 - 1, 2^30, 2^32, 2^62 - 1
H3PushIds ==
    { U64Zero, U64OfNat(63), U64OfNat(64), U64OfNat(16383), U64OfNat(16384),
      U64OfNat(1073741823), U64OfNat(1073741824), <<0, 0, 0, 1, 0, 0, 0, 0>>,
      <<63, 255, 255, 255, 255, 255, 255, 255>> }

H3Payloads ==
    { <<>>, <<0>>, <<1, 2>>, <<192, 0, 64>> }
        \cup { Repeat(n, 7) : n \in {MaxH3Payload - 2, MaxH3Payload - 1, MaxH3Payload} }

H3Encoders ==
    { [kind |-> k, push_id |-> U64Zero, payload |-> p] :
          k \in {"Data", "Headers", "Settings"}, p \in H3Payloads }
      \cup { [kind |-> k, push_id |-> i, payload |-> <<>>] :
                k \in {"CancelPush", "Goaway", "MaxPushId"}, i \in H3PushIds }
      \cup { [kind |-> "PushPromise", push_id |-> i, payload |-> p] :
                i \in H3PushIds, p \in H3Payloads }

InitH3f ==
    /\ h3fPc = "idle"
    /\ h3fEncoder = [kind |-> "Data", push_id |-> U64Zero, payload |-> <<>>]
    /\ h3fBytes = <<>>
    /\ h3fDecoder = [kind |-> "Invalid", err |-> {}]

H3fEncode ==
    /\ h3fPc = "idle"
    /\ \E e \in H3Encoders :
          /\ h3fEncoder' = e
          /\ h3fBytes' = H3FrameEncode(e)
    /\ h3fPc' = "encoded"
    /\ UNCHANGED h3fDecoder

H3fDecode ==
    /\ h3fPc = "encoded"
    /\ h3fDecoder' = H3FrameDecoderDecode(h3fBytes)
    /\ h3fPc' = "decoded"
    /\ UNCHANGED <<h3fEncoder, h3fBytes>>

NextH3f ==
    \/ H3fEncode
    \/ H3fDecode

\* the shortest variable-length integer for n < 2^30
MinimalVar(n) ==
    IF n <= 63 THEN <<n>>
    ELSE IF n <= 16383 THEN <<64 + n \div 256, n % 256>>
    ELSE <<128 + n \div 16777216, (n \div 65536) % 256, (n \div 256) % 256, n % 256>>

\* the frame type of an encoder
H3TypeOf(kind) ==
    CASE kind = "Data" -> 0 [] kind = "Headers" -> 1 [] kind = "CancelPush" -> 3
      [] kind = "Settings" -> 4 [] kind = "PushPromise" -> 5 [] kind = "Goaway" -> 7
      [] kind = "MaxPushId" -> 13

\* the payload of a frame: the push id where the frame has one, then the Vec
H3PayloadOf(e) ==
    (IF e.kind \in H3PushIdKinds THEN encode_u64(e.push_id) ELSE <<>>) \o e.payload

\* C35: an encoder writes the type byte, the shortest variable-length
\* integer of the payload length and the payload; FrameDecoder::decode of
\* these bytes is the variant of the same type with no error, the same
\* length, the same push id and the same payload bytes.
C35_H3FrameRoundTrip ==
    /\ h3fPc \in {"encoded", "decoded"} =>
          h3fBytes = <<H3TypeOf(h3fEncoder.kind)>>
                        \o MinimalVar(Len(H3PayloadOf(h3fEncoder))) \o H3PayloadOf(h3fEncoder)
    /\ h3fPc = "decoded" =>
          /\ h3fDecoder.kind = h3fEncoder.kind
          /\ h3fDecoder.err = {}
          /\ h3fDecoder.length = U64OfNat(Len(H3PayloadOf(h3fEncoder)))
          /\ h3fEncoder.kind \in H3PushIdKinds => h3fDecoder.push_id = h3fEncoder.push_id
          /\ h3fEncoder.kind \in H3PayloadKinds =>
                H3Payload(h3fDecoder, h3fBytes) = Some(h3fEncoder.payload)

\* a PUSH_PROMISE frame with push id 2^62 - 1 and a section of 64 bytes,
\* whose length needs two bytes, was encoded and decoded
C35_Witness ==
    /\ h3fPc = "decoded"
    /\ h3fEncoder.kind = "PushPromise"
    /\ h3fEncoder.push_id = <<63, 255, 255, 255, 255, 255, 255, 255>>
    /\ Len(h3fEncoder.payload) = MaxH3Payload
    /\ SubSeq(h3fBytes, 1, 3) = <<5, 64, 72>>
    /\ h3fDecoder.kind = "PushPromise"
    /\ h3fDecoder.err = {}
-----------------------------------------------------------------------------
(* QPACK encoder instructions: h3/qpack/mod.rs, and the helper that applies *)
(* them to a DynamicTable: h3/assist/mod.rs.                                *)

\* a DynamicTable
DynamicTable(capacity, absolute, buffer) ==
    [capacity |-> capacity, absolute |-> absolute, buffer |-> buffer]

\* DynamicTable::new
DynamicTableNew == DynamicTable(DEFAULT_CAPACITY, 0, <<>>)

\* StaticTable::get_entry
StaticTableGetEntry(n) ==
    IF n < QP_STATIC_TABLE_LEN THEN Some(QP_STATIC_TABLE[n + 1]) ELSE None

\* StaticTable::get_name
StaticTableGetName(n) ==
    IF StaticTableGetEntry(n) = None THEN None ELSE Some(Unwrap(StaticTableGetEntry(n))[1])

\* DynamicTable::get_entry: VecDeque::get(n), the newest entry at 0
QpGetEntry(buffer, n) ==
    IF n < Len(buffer) THEN Some(buffer[n + 1]) ELSE None

\* DynamicIndices::get_name
QpGetName(buffer, n) ==
    IF QpGetEntry(buffer, n) = None THEN None ELSE Some(Unwrap(QpGetEntry(buffer, n))[1])

\* DynamicTable::add on the whole table
DynamicTableAdd(t, name, value) ==
    DynamicTable(t.capacity, t.absolute + 1, QpAdd(t.capacity, t.buffer, name, value))

\* DynamicTable::set_capacity on the whole table
DynamicTableSetCapacity(t, n) ==
    DynamicTable(n, t.absolute, QpSetCapacity(n, t.buffer))

\* encode_prefix_literal(s, w, p): the length on a w-bit prefix, then the octets
encode_prefix_literal(s, w, p) == encode_integer(Len(s), w, p) \o s

\* encode_prefix_literal_huffman(s, w, p)
encode_prefix_literal_huffman(s, w, p) ==
    encode_integer(Len(encode_huffman(s)), w, p) \o encode_huffman(s)

\* the value literal of an instruction: Huffman coded when the OctetsRef asks
InsLiteral(x) ==
    IF x.huffman THEN encode_literal_huffman_encoded(x.o) ELSE encode_literal(x.o)

\* EncoderInstructions::set_dynamic_table_capacity
ins_set_dynamic_table_capacity(n) == encode_integer(n, 5, 32)

\* EncoderInstructions::insert_with_name_reference
ins_insert_with_name_reference(t_bit, n, value) ==
    (IF t_bit THEN encode_integer(n, 6, 192) ELSE encode_integer(n, 6, 128))
        \o InsLiteral(value)

\* EncoderInstructions::insert_with_literal_name
ins_insert_with_literal_name(name, value) ==
    (IF name.huffman THEN encode_prefix_literal_huffman(name.o, 5, 96)
     ELSE encode_prefix_literal(name.o, 5, 64))
        \o InsLiteral(value)

\* EncoderInstructions::duplicate
ins_duplicate(n) == encode_integer(n, 5, 0)

\* ReadByte::fetch_all(n) for a slice: n bytes, or none when fewer remain
fetch_all(n, reader) ==
    IF n <= Len(reader)
    THEN [v |-> Some(SubSeq(reader, 1, n)), rest |-> SubSeq(reader, n + 1, Len(reader))]
    ELSE [v |-> None, rest |-> reader]

\* decode_n_huf_to_vec
decode_n_huf_to_vec(n, reader) ==
    LET f == fetch_all(n, reader)
    IN  [v |-> IF f.v = None THEN <<>> ELSE decode_huffman(Unwrap(f.v)), rest |-> f.rest]

\* decode_n_literal_to_vec
decode_n_literal_to_vec(n, reader) ==
    LET f == fetch_all(n, reader)
    IN  [v |-> IF f.v = None THEN <<>> ELSE Unwrap(f.v), rest |-> f.rest]

\* a callback of DistributeEncoderInstructions with its arguments, and the
\* reader after the instruction
InsCall(cb, t_bit, n, name, value, rest) ==
    [cb |-> cb, t_bit |-> t_bit, n |-> n, name |-> name, value |-> value, rest |-> rest]

\* the arms of EncoderInstructions::decode that read an index and a value
InsNameReference(t_bit, i, reader) ==
    IF BitAnd(i, 63) = 63 THEN
        LET a == decode_integer(63, reader)
            l == decode_literal_to_vec(a.rest)
        IN  InsCall("insert_with_name_reference", t_bit, a.v, <<>>, l.v, l.rest)
    ELSE
        LET l == decode_literal_to_vec(reader)
        IN  InsCall("insert_with_name_reference", t_bit, BitAnd(i, 63), <<>>, l.v, l.rest)

\* the arms of EncoderInstructions::decode that read a name and a value
InsLiteralName(huffman, i, reader) ==
    LET a == IF BitAnd(i, 31) = 31 THEN decode_integer(31, reader)
             ELSE [v |-> BitAnd(i, 31), rest |-> reader]
        name == IF huffman THEN decode_n_huf_to_vec(a.v, a.rest)
                ELSE decode_n_literal_to_vec(a.v, a.rest)
        l == decode_literal_to_vec(name.rest)
    IN  InsCall("insert_with_literal_name", FALSE, 0, name.v, l.v, l.rest)

\* the arms of EncoderInstructions::decode that read one integer
InsInteger(cb, i, reader) ==
    IF BitAnd(i, 31) = 31 THEN
        LET a == decode_integer(31, reader)
        IN  InsCall(cb, FALSE, a.v, <<>>, <<>>, a.rest)
    ELSE InsCall(cb, FALSE, BitAnd(i, 31), <<>>, <<>>, reader)

\* one turn of the loop of EncoderInstructions::decode: the match on the byte
\* fetched
EncoderInstructionsDecodeOne(i, reader) ==
    IF i >= 192 THEN InsNameReference(TRUE, i, reader)
    ELSE IF i >= 128 THEN InsNameReference(FALSE, i, reader)
    ELSE IF i >= 96 THEN InsLiteralName(TRUE, i, reader)
    ELSE IF i >= 64 THEN InsLiteralName(FALSE, i, reader)
    ELSE IF i >= 32 THEN InsInteger("set_dynamic_table_capacity", i, reader)
    ELSE InsInteger("duplicate", i, reader)

\* H3EncoderInstructionsHelper::set_dynamic_table_capacity
h3_set_dynamic_table_capacity(t, n) == DynamicTableSetCapacity(t, n)

\* H3EncoderInstructionsHelper::insert_with_name_reference
h3_insert_with_name_reference(t, t_bit, n, value) ==
    IF t_bit THEN
        IF StaticTableGetName(n) # None
        THEN DynamicTableAdd(t, Unwrap(StaticTableGetName(n)), value)
        ELSE t
    ELSE
        IF QpGetName(t.buffer, n) # None
        THEN DynamicTableAdd(t, Unwrap(QpGetName(t.buffer, n)), value)
        ELSE t

\* H3EncoderInstructionsHelper::insert_with_literal_name
h3_insert_with_literal_name(t, name, value) == DynamicTableAdd(t, name, value)

\* a mutation of duplicate that re-adds the oldest entry whatever the index
h3_duplicate_oldest(t, n) ==
    IF QpGetEntry(t.buffer, n) # None
    THEN LET e == t.buffer[Len(t.buffer)]
         IN  DynamicTableAdd(t, e[1], e[2])
    ELSE t

\* H3EncoderInstructionsHelper::duplicate
h3_duplicate(t, n) ==
    IF QpGetEntry(t.buffer, n) # None
    THEN LET e == Unwrap(QpGetEntry(t.buffer, n))
         IN  DynamicTableAdd(t, e[1], e[2])
    ELSE t

\* the callback of the helper a decoded instruction lands in
DistributeEncoderInstruction(t, c) ==
    CASE c.cb = "set_dynamic_table_capacity" -> h3_set_dynamic_table_capacity(t, c.n)
      [] c.cb = "insert_with_name_reference" ->
            h3_insert_with_name_reference(t, c.t_bit, c.n, c.value)
      [] c.cb = "insert_with_literal_name" -> h3_insert_with_literal_name(t, c.name, c.value)
      [] c.cb = "duplicate" -> h3_duplicate(t, c.n)

VARIABLES
    insPc,       \* "idle" between calls of decode, "decoding" inside one
    insTable,    \* the DynamicTable the helper borrows
    insReader,   \* the bytes of the encoder stream not read yet
    insGiven,    \* history: every instruction encoded into the streams so far
    insDone      \* history: the number of turns of the decode loop so far

insVars == <<insPc, insTable, insReader, insGiven, insDone>>

\* the total number of instructions the helper is fed
MaxInsOps == 3

\* the instructions the streams are built from: capacities that evict, valid
\* and invalid static and dynamic indexes, one-byte and longer integers
InsSet ==
    { [kind |-> "SetCapacity", n |-> 0],
      [kind |-> "SetCapacity", n |-> 70],
      [kind |-> "SetCapacity", n |-> 220],
      [kind |-> "NameReference", t_bit |-> TRUE, n |-> 1, value |-> OctetsRef(<<47, 97>>)],
      [kind |-> "NameReference", t_bit |-> TRUE, n |-> 98, value |-> OctetsRefHuffman(<<120>>)],
      [kind |-> "NameReference", t_bit |-> TRUE, n |-> 99, value |-> OctetsRef(<<120>>)],
      [kind |-> "NameReference", t_bit |-> FALSE, n |-> 0, value |-> OctetsRef(<<121>>)],
      [kind |-> "NameReference", t_bit |-> FALSE, n |-> 1, value |-> OctetsRefHuffman(<<122, 122>>)],
      [kind |-> "LiteralName", name |-> OctetsRef(<<97>>), value |-> OctetsRef(<<>>)],
      [kind |-> "LiteralName", name |-> OctetsRefHuffman(<<99, 101>>), value |-> OctetsRefHuffman(<<118>>)],
      [kind |-> "Duplicate", n |-> 0],
      [kind |-> "Duplicate", n |-> 1],
      [kind |-> "Duplicate", n |-> 40] }

\* the bytes of one instruction
InsEncode(ins) ==
    CASE ins.kind = "SetCapacity" -> ins_set_dynamic_table_capacity(ins.n)
      [] ins.kind = "NameReference" -> ins_insert_with_name_reference(ins.t_bit, ins.n, ins.value)
      [] ins.kind = "LiteralName" -> ins_insert_with_literal_name(ins.name, ins.value)
      [] ins.kind = "Duplicate" -> ins_duplicate(ins.n)

RECURSIVE InsEncodeAll(_)
InsEncodeAll(list) ==
    IF list = <<>> THEN <<>> ELSE InsEncode(Head(list)) \o InsEncodeAll(Tail(list))

InitIns ==
    /\ insPc = "idle"
    /\ insTable = DynamicTableNew
    /\ insReader = <<>>
    /\ insGiven = <<>>
    /\ insDone = 0

\* H3EncoderInstructionsHelper::decode is called with the next bytes of the
\* encoder stream: some instructions, encoded
InsStart ==
    /\ insPc = "idle"
    /\ Len(insGiven) < MaxInsOps
    /\ \E n \in 1..(MaxInsOps - Len(insGiven)) :
         \E list \in [1..n -> InsSet] :
            /\ insReader' = InsEncodeAll(list)
            /\ insGiven' = insGiven \o list
    /\ insPc' = "decoding"
    /\ UNCHANGED <<insTable, insDone>>

\* one turn of the loop of EncoderInstructions::decode: a byte is fetched, the
\* rest of the instruction is read and the helper's callback applies it
InsDecodeOne ==
    /\ insPc = "decoding"
    /\ insReader # <<>>
    /\ LET c == EncoderInstructionsDecodeOne(Head(insReader), Tail(insReader))
       IN  /\ insTable' = DistributeEncoderInstruction(insTable, c)
           /\ insReader' = c.rest
    /\ insDone' = insDone + 1
    /\ UNCHANGED <<insPc, insGiven>>

\* the reader is exhausted: decode returns
InsEnd ==
    /\ insPc = "decoding"
    /\ insReader = <<>>
    /\ insPc' = "idle"
    /\ UNCHANGED <<insTable, insReader, insGiven, insDone>>

NextIns ==
    \/ InsStart
    \/ InsDecodeOne
    \/ InsEnd

\* push_front, count, then drop from the back while over capacity
Inserted(t, name, value) ==
    [capacity |-> t.capacity, absolute |-> t.absolute + 1,
     buffer |-> Eviction(t.capacity, <<<<name, value>>>> \o t.buffer)]

\* what an instruction does to the table
Applied(t, ins) ==
    CASE ins.kind = "SetCapacity" ->
            [capacity |-> ins.n, absolute |-> t.absolute, buffer |-> Eviction(ins.n, t.buffer)]
      [] ins.kind = "NameReference" /\ ins.t_bit ->
            IF ins.n < QP_STATIC_TABLE_LEN
            THEN Inserted(t, QP_STATIC_TABLE[ins.n + 1][1], ins.value.o)
            ELSE t
      [] ins.kind = "NameReference" /\ ~ins.t_bit ->
            IF ins.n < Len(t.buffer)
            THEN Inserted(t, t.buffer[ins.n + 1][1], ins.value.o)
            ELSE t
      [] ins.kind = "LiteralName" -> Inserted(t, ins.name.o, ins.value.o)
      [] ins.kind = "Duplicate" ->
            IF ins.n < Len(t.buffer)
            THEN Inserted(t, t.buffer[ins.n + 1][1], t.buffer[ins.n + 1][2])
            ELSE t

\* the table after the first k instructions given, applied in order
RECURSIVE AppliedInOrder(_)
AppliedInOrder(k) ==
    IF k = 0 THEN DynamicTableNew ELSE Applied(AppliedInOrder(k - 1), insGiven[k])

\* C26: the helper applies the instructions of the encoder stream to the
\* dynamic table in stream order - Set Dynamic Table Capacity sets the capacity
\* and evicts, Insert with Name Reference adds the static (T=1) or dynamic
\* (T=0) name with the value, Insert with Literal Name adds the pair,
\* Duplicate re-adds the entry at relative index n as the newest, an invalid
\* index changes nothing - and the table is the result of these in that order.
C26_InstructionsInOrder ==
    /\ insDone <= Len(insGiven)
    /\ insTable = AppliedInOrder(insDone)
    /\ insPc = "idle" => insDone = Len(insGiven)

\* C26 witness: a literal insert, an insert naming the dynamic entry 0, and a
\* duplicate of relative index 1 were decoded: the table holds, newest first,
\* the duplicate (a, ""), (a, "y") and (a, "").
C26_Witness ==
    /\ insPc = "idle"
    /\ insDone = 3
    /\ insGiven[3] = [kind |-> "Duplicate", n |-> 1]
    /\ insTable.buffer = << <<<<97>>, <<>>>>, <<<<97>>, <<121>>>>, <<<<97>>, <<>>>> >>
    /\ insTable.absolute = 3
-----------------------------------------------------------------------------
(* The prefix of an encoded field section: FieldInstructions::prefix and   *)
(* the first part of FieldInstructions::decode, h3/qpack/mod.rs.           *)

\* FieldInstructions::prefix: the bytes written
FieldInstructionsPrefix(required_insert_count, s_bit, delta_base) ==
    encode_integer(required_insert_count, 8, 0)
        \o (IF s_bit THEN encode_integer(delta_base, 7, 128)
            ELSE encode_integer(delta_base, 7, 0))

\* the outcome of the prefix part of decode: whether ins.prefix was called,
\* with what, and the reader the loop over the field lines starts from (none
\* when decode returned before the loop)
PrefixCall(called, r, s, d, rest) ==
    [called |-> called, required_insert_count |-> r, s_bit |-> s, delta_base |-> d,
     rest |-> rest]

\* FieldInstructions::decode up to the loop over the field lines
FieldInstructionsDecodePrefix(reader) ==
    IF reader = <<>> THEN PrefixCall(FALSE, 0, FALSE, 0, None)
    ELSE LET i == Head(reader)
             r == IF i < 255 THEN [v |-> i, rest |-> Tail(reader)]
                  ELSE decode_integer(255, Tail(reader))
         IN  IF r.rest = <<>> THEN PrefixCall(FALSE, 0, FALSE, 0, None)
             ELSE LET j == Head(r.rest)
                      a == IF BitAnd(j, 127) = 127 THEN decode_integer(127, Tail(r.rest))
                           ELSE [v |-> BitAnd(j, 127), rest |-> Tail(r.rest)]
                  IN  PrefixCall(TRUE, r.v, j >= 128, a.v, Some(a.rest))

VARIABLES
    pfxPc,       \* "idle", "encoded", "decoded"
    pfxArgs,     \* the arguments of prefix and the field line bytes written behind
    pfxBytes,    \* the bytes of the encoded field section
    pfxCall      \* the outcome of the prefix part of decode

pfxVars == <<pfxPc, pfxArgs, pfxBytes, pfxCall>>

\* the number of field line bytes behind the prefix, at most
MaxPfxLines == 1

PfxCounts == {0, 1, 126, 127, 128, 254, 255, 256, 1000}

\* field lines behind the prefix: indexed field lines of the static table
PfxLines == UNION { [1..n -> {192, 193}] : n \in 0..MaxPfxLines }

InitPfx ==
    /\ pfxPc = "idle"
    /\ pfxArgs = <<>>
    /\ pfxBytes = <<>>
    /\ pfxCall = <<>>

\* prefix(r, s, d, writer), then the field lines are written
PfxEncode ==
    /\ pfxPc = "idle"
    /\ \E r \in PfxCounts, s \in BOOLEAN, d \in PfxCounts, l \in PfxLines :
          /\ pfxArgs' = [required_insert_count |-> r, s_bit |-> s, delta_base |-> d,
                         lines |-> l]
          /\ pfxBytes' = FieldInstructionsPrefix(r, s, d) \o l
    /\ pfxPc' = "encoded"
    /\ UNCHANGED pfxCall

\* decode reads the prefix from the front of the section
PfxDecode ==
    /\ pfxPc = "encoded"
    /\ pfxCall' = FieldInstructionsDecodePrefix(pfxBytes)
    /\ pfxPc' = "decoded"
    /\ UNCHANGED <<pfxArgs, pfxBytes>>

NextPfx ==
    \/ PfxEncode
    \/ PfxDecode

\* i on a w-bit prefix with the bits p above it
Prefixed(i, w, p) ==
    IF i < Pow2(w) - 1 THEN <<i + p>>
    ELSE <<Pow2(w) - 1 + p>> \o Chunks7(i - (Pow2(w) - 1))

\* C27: for every Required Insert Count r, sign bit s and Delta Base d,
\* prefix writes r on an 8-bit prefix and then the S bit with d on a 7-bit
\* prefix, and decode applied to those bytes calls prefix(r, s, d) before any
\* field line is handled.
C27_PrefixRoundTrip ==
    /\ pfxPc \in {"encoded", "decoded"} =>
          pfxBytes = Prefixed(pfxArgs.required_insert_count, 8, 0)
                        \o Prefixed(pfxArgs.delta_base, 7, IF pfxArgs.s_bit THEN 128 ELSE 0)
                        \o pfxArgs.lines
    /\ pfxPc = "decoded" =>
          pfxCall = PrefixCall(TRUE, pfxArgs.required_insert_count, pfxArgs.s_bit,
                               pfxArgs.delta_base, Some(pfxArgs.lines))

-----------------------------------------------------------------------------
(* H2EncodeFieldsHelper over an H2StreamIdentifierBuilder and a            *)
(* Vec<Vec<u8>> sink: h2/assist/mod.rs.  A helper value holds the state of *)
(* the builder (next_id) and of the sink (output) it borrows.              *)

\* HeadersContinuation::None and HeadersContinuation::Unused
BufferNone == [kind |-> "None"]

BufferUnused == [kind |-> "Unused"]

IsEncoder(buffer) == buffer.kind \in {"Headers", "Continuation", "PushPromise"}

\* impl WriteByte for HeadersContinuation: surplus_mut
BufferSurplus(buffer) ==
    IF IsEncoder(buffer) THEN buffer.capacity - Len(buffer.field_block_fragment) ELSE 0

\* impl WriteByte for HeadersContinuation: put, put_repeat, put_all
BufferWrite(buffer, w) ==
    IF IsEncoder(buffer)
    THEN [buffer EXCEPT !.field_block_fragment = VecWrite(@, w)]
    ELSE buffer

\* impl H2DistributeEncoder for Vec<Vec<u8>>: the frame pushed for an encoder
SinkFrame(e) ==
    CASE e.kind = "Headers" -> HeadersEncode(e)
      [] e.kind = "Continuation" -> ContinuationEncode(e)
      [] e.kind = "PushPromise" -> PushPromiseEncode(e)

\* H2EncodeFieldsHelper::new / new_push_promise over a new
\* H2StreamIdentifierBuilder and an empty sink
EncHelperNew(push_promise) ==
    [fields_capacity |-> 0, continuation_capacity |-> 0, push_promise |-> push_promise,
     next_id |-> 1, output |-> <<>>, buffer |-> BufferUnused]

\* H2EncodeFieldsHelper::flush: take() leaves None whatever the buffer was
enc_flush(h) ==
    IF IsEncoder(h.buffer)
    THEN [h EXCEPT !.output = Append(@, SinkFrame(h.buffer)), !.buffer = BufferNone]
    ELSE [h EXCEPT !.buffer = BufferNone]

\* the helper is dropped: the struct derives nothing that flushes, so the
\* buffer goes with it
enc_drop(h) == [h EXCEPT !.buffer = BufferNone]

\* H2EncodeFieldsHelper::next, with H2StreamIdentifierBuilder::next
enc_next(h) ==
    CASE h.buffer.kind = "None" ->
            [h EXCEPT !.buffer = ContinuationEncoderNew(h.next_id, h.continuation_capacity),
                      !.next_id = @ + 1]
      [] h.buffer.kind = "Unused" ->
            [h EXCEPT !.buffer = IF h.push_promise
                                 THEN PushPromiseEncoderNew(h.next_id, h.fields_capacity)
                                 ELSE HeadersEncoderNew(h.next_id, h.fields_capacity),
                      !.next_id = @ + 1]
      [] OTHER -> h

\* impl WriteByte for H2EncodeFieldsHelper: put
RECURSIVE enc_put(_, _)
enc_put(h, o) ==
    IF BufferSurplus(h.buffer) > 0
    THEN [h EXCEPT !.buffer = BufferWrite(@, Put(o))]
    ELSE enc_put(enc_next(enc_flush(h)), o)

\* impl WriteByte for H2EncodeFieldsHelper: put_repeat
RECURSIVE enc_put_repeat(_, _, _)
enc_put_repeat(h, cnt, o) ==
    LET n == BufferSurplus(h.buffer)
    IN  IF n >= cnt
        THEN [h EXCEPT !.buffer = BufferWrite(@, PutRepeat(cnt, o))]
        ELSE enc_put_repeat(
                 enc_next(enc_flush([h EXCEPT !.buffer = BufferWrite(@, PutRepeat(n, o))])),
                 cnt - n, o)

\* impl WriteByte for H2EncodeFieldsHelper: put_all
RECURSIVE enc_put_all(_, _)
enc_put_all(h, buf) ==
    LET n == BufferSurplus(h.buffer)
    IN  IF n > 0 /\ n >= Len(buf)
        THEN [h EXCEPT !.buffer = BufferWrite(@, PutAll(buf))]
        ELSE IF n > 0
        THEN enc_put_all(
                 enc_next(enc_flush(
                     [h EXCEPT !.buffer = BufferWrite(@, PutAll(SubSeq(buf, 1, n)))])),
                 SubSeq(buf, n + 1, Len(buf)))
        ELSE enc_put_all(enc_next(enc_flush(h)), buf)

\* one call on the helper as a WriteByte
enc_write(h, w) ==
    CASE w.op = "put" -> enc_put(h, w.o)
      [] w.op = "put_repeat" -> enc_put_repeat(h, w.cnt, w.o)
      [] w.op = "put_all" -> enc_put_all(h, w.buf)

RECURSIVE enc_write_all(_, _)
enc_write_all(h, ws) ==
    IF ws = <<>> THEN h ELSE enc_write_all(enc_write(h, Head(ws)), Tail(ws))

\* the writer calls of a Vec<FieldRep>, one representation after another
RECURSIVE FieldRepsWrites(_)
FieldRepsWrites(vec) ==
    IF vec = <<>> THEN <<>> ELSE FieldRepWrites(Head(vec)) \o FieldRepsWrites(Tail(vec))

\* H2EncodeFieldsHelper::field
enc_field(h, a) == enc_write_all(enc_next(h), FieldRepWrites(a))

\* H2EncodeFieldsHelper::fields
enc_fields(h, vec) == enc_write_all(enc_next(h), FieldRepsWrites(vec))

\* H2EncodeFieldsHelper::pseudo_and_fields
enc_pseudo_and_fields(h, pseudo, fields) ==
    enc_write_all(enc_next(h), FieldRepsWrites(pseudo) \o FieldRepsWrites(fields))

-----------------------------------------------------------------------------
(* H2Request: h2/mod.rs.  Strings are their UTF-8 bytes; headers map a name *)
(* to the sequence of its values (FieldValue).                             *)

COLON == 58

PSEUDO_METHOD == <<58, 109, 101, 116, 104, 111, 100>>

PSEUDO_SCHEME == <<58, 115, 99, 104, 101, 109, 101>>

PSEUDO_AUTHORITY == <<58, 97, 117, 116, 104, 111, 114, 105, 116, 121>>

PSEUDO_PATH == <<58, 112, 97, 116, 104>>

\* lossy UTF-8 decoding of bytes: ASCII is kept, a byte that is not part of a
\* valid sequence is dropped
vec_to_str(v) == SelectSeq(v, LAMBDA b : b < 128)

\* H2Request::new
H2RequestNew ==
    [method |-> <<>>, scheme |-> None, authority |-> None, path |-> None,
     headers |-> <<>>]

\* Fields::add_field
add_field(fields, k, v) ==
    IF k \in DOMAIN fields THEN [fields EXCEPT ![k] = Append(@, v)]
    ELSE [x \in DOMAIN fields \cup {k} |-> IF x = k THEN <<v>> ELSE fields[x]]

\* H2Request::set_pseudo
set_pseudo(r, name, value) ==
    CASE name = PSEUDO_METHOD -> [r EXCEPT !.method = value]
      [] name = PSEUDO_SCHEME -> [r EXCEPT !.scheme = Some(value)]
      [] name = PSEUDO_AUTHORITY -> [r EXCEPT !.authority = Some(value)]
      [] name = PSEUDO_PATH -> [r EXCEPT !.path = Some(value)]
      [] OTHER -> r

\* impl H2DistributeFields for H2Request: next, next_pseudo, next_field
H2RequestNext(r, name, value) ==
    IF name # <<>> /\ name[1] = COLON
    THEN set_pseudo(r, vec_to_str(name), vec_to_str(value))
    ELSE [r EXCEPT !.headers = add_field(@, vec_to_str(name), value)]

\* the request a helper over an H2Request leaves after the fields it emitted
RECURSIVE H2RequestOfFields(_, _)
H2RequestOfFields(r, fields) ==
    IF fields = <<>> THEN r
    ELSE H2RequestOfFields(H2RequestNext(r, Head(fields)[1], Head(fields)[2]), Tail(fields))

IndexBoth(i) == [kind |-> "Both", i |-> i, o |-> <<>>]

IndexOne(i, o) == [kind |-> "One", i |-> i, o |-> o]

IndexNone == [kind |-> "None", i |-> 0, o |-> <<>>]

\* "GET" / "POST"
indexed_method(r) ==
    CASE r.method = <<71, 69, 84>> -> IndexBoth(2)
      [] r.method = <<80, 79, 83, 84>> -> IndexBoth(3)
      [] OTHER -> IndexOne(2, r.method)

\* "http" / "https"
indexed_scheme(r) ==
    IF r.scheme = None THEN IndexNone
    ELSE CASE Unwrap(r.scheme) = <<104, 116, 116, 112>> -> IndexBoth(6)
           [] Unwrap(r.scheme) = <<104, 116, 116, 112, 115>> -> IndexBoth(7)
           [] OTHER -> IndexOne(6, Unwrap(r.scheme))

indexed_authority(r) ==
    IF r.authority = None THEN IndexNone
    ELSE IF Unwrap(r.authority) = <<>> THEN IndexBoth(1)
    ELSE IndexOne(1, Unwrap(r.authority))

\* "/" / "/index.html"
indexed_path(r) ==
    IF r.path = None THEN IndexNone
    ELSE CASE Unwrap(r.path) = <<47>> -> IndexBoth(4)
           [] Unwrap(r.path) = <<47, 105, 110, 100, 101, 120, 46, 104, 116, 109, 108>> ->
                 IndexBoth(5)
           [] OTHER -> IndexOne(4, Unwrap(r.path))

index_to_rep(x) ==
    CASE x.kind = "Both" -> <<[kind |-> "Indexed", n |-> x.i]>>
      [] x.kind = "One" ->
            <<[kind |-> "WithoutIndexingIndexedName", n |-> x.i, value |-> OctetsRef(x.o)]>>
      [] x.kind = "None" -> <<>>

\* H2Request::pseudo_rep
pseudo_rep(r) ==
    index_to_rep(indexed_method(r)) \o index_to_rep(indexed_scheme(r))
        \o index_to_rep(indexed_authority(r)) \o index_to_rep(indexed_path(r))

\* the orders in which a HashMap with these keys may be iterated
IterOrders(keys) ==
    { s \in [1..Cardinality(keys) -> keys] :
        \A i, j \in 1..Cardinality(keys) : i # j => s[i] # s[j] }

\* H2Request::headers_rep, the map iterated in the given order
headers_rep(r, order) ==
    [i \in 1..Len(order) |->
        [kind |-> "IncrementalIndexingNewName",
         name |-> OctetsRef(order[i]), value |-> OctetsRef(r.headers[order[i]][1])]]

\* the field block fragments of frames decoded by FrameDecoder, when the first
\* is a HEADERS frame and the others are CONTINUATION frames; None otherwise
HeadersContFragments(frames) ==
    IF /\ frames # <<>>
       /\ FrameDecoderDecode(frames[1]).kind = "Headers"
       /\ \A i \in 2..Len(frames) : FrameDecoderDecode(frames[i]).kind = "Continuation"
    THEN Some([i \in 1..Len(frames) |-> FrameDecoderDecode(frames[i]).field_block_fragment])
    ELSE None

\* H2DecodeFieldsHelper::headers_cont (headers when there is no CONTINUATION):
\* decode_fields on each frame in turn, each fragment a reader of its own
RECURSIVE headers_cont(_, _)
headers_cont(h, fragments) ==
    IF fragments = <<>> THEN h
    ELSE headers_cont(
             IF Head(fragments) = None THEN h
             ELSE InstructionsDecode(h, Unwrap(Head(fragments))),
             Tail(fragments))

\* frames decoded with a fresh IndexingTables into a new H2Request
DecodeRequest(frames) ==
    H2RequestOfFields(H2RequestNew,
        headers_cont(Helper(DEFAULT_CAPACITY, <<>>, <<>>),
                     Unwrap(HeadersContFragments(frames))).output)
-----------------------------------------------------------------------------
(* H2StreamIdentifierBuilder: h2/assist/mod.rs.  A builder is the u32 in   *)
(* its Arc and whether the Arc has no other owner.                         *)

\* H2StreamIdentifierBuilder::new.  The Arc is a private field that nothing
\* clones, so Arc::get_mut finds it unshared.
H2StreamIdentifierBuilderNew == [n |-> 1, unique |-> TRUE]

\* H2StreamIdentifierBuilder::next: the value returned and the builder after
H2StreamIdentifierNext(b) ==
    IF b.unique THEN [id |-> b.n, builder |-> [n |-> b.n + 1, unique |-> b.unique]]
    ELSE [id |-> 0, builder |-> b]

VARIABLES
    sidBuilders,   \* the builders, one per connection
    sidReturned    \* history: the identifiers each builder returned, in order

sidVars == <<sidBuilders, sidReturned>>

\* the number of next calls made on one builder, at most
MaxSidCalls == 10

SidConnections == {"a", "b"}

InitSid ==
    /\ sidBuilders = [c \in SidConnections |-> H2StreamIdentifierBuilderNew]
    /\ sidReturned = [c \in SidConnections |-> <<>>]

\* next is called on the builder of one connection
SidNext ==
    \E c \in SidConnections :
        /\ Len(sidReturned[c]) < MaxSidCalls
        /\ LET r == H2StreamIdentifierNext(sidBuilders[c])
           IN  /\ sidBuilders' = [sidBuilders EXCEPT ![c] = r.builder]
               /\ sidReturned' = [sidReturned EXCEPT ![c] = Append(@, r.id)]

NextSid == SidNext

\* C30: the identifiers a builder returns start at 1, are all odd, and each is
\* exactly 2 greater than the one before.
C30_IdsStepByTwo ==
    \A c \in SidConnections :
        LET ids == sidReturned[c]
        IN  /\ ids # <<>> => ids[1] = 1
            /\ \A k \in 1..Len(ids) : ids[k] % 2 = 1
            /\ \A k \in 1..(Len(ids) - 1) : ids[k + 1] = ids[k] + 2
-----------------------------------------------------------------------------
(* H2ContentHelper over a stream identifier builder and a frame output:    *)
(* h2/assist/mod.rs.  Byte strings are held as runs.                       *)

\* isize::MAX, held as the largest integer at hand: like the real one it is
\* above every length a Vec reaches
ISIZE_MAX == 2147483647

\* impl WriteByte for Vec<u8>: surplus_mut
VecSurplusMut(len) == ISIZE_MAX - len

\* the first k bytes of the runs
RECURSIVE RunsTake(_, _)
RunsTake(r, k) ==
    IF k = 0 \/ r = <<>> THEN <<>>
    ELSE IF r[1][1] <= k THEN <<r[1]>> \o RunsTake(Tail(r), k - r[1][1])
    ELSE << <<k, r[1][2]>> >>

\* H2ContentHelper::new
H2ContentHelperNew(ids) ==
    [data_capacity |-> 0, stream_identifier |-> ids, output |-> <<>>, buffer |-> None]

\* H2ContentHelper::next: the buffer, made with the next stream identifier
\* when there is none.  The capacity given to DataEncoder::new sizes the
\* allocation of its Vec and is not kept.
content_next(h) ==
    IF h.buffer # None THEN h
    ELSE LET r == H2StreamIdentifierNext(h.stream_identifier)
         IN  [h EXCEPT !.stream_identifier = r.builder,
                       !.buffer = Some(DataEncoderNew(r.id))]

\* H2ContentHelper::flush
content_flush(h) ==
    IF h.buffer # None
    THEN [h EXCEPT !.output = Append(@, Unwrap(h.buffer)), !.buffer = None]
    ELSE h

\* the buffer's data.put_all(o)
ContentPutAll(h, o) ==
    [h EXCEPT !.buffer = Some([Unwrap(h.buffer) EXCEPT !.data = RunsNorm(@ \o o)])]

\* H2ContentHelper::byte_slice
RECURSIVE content_byte_slice(_, _)
content_byte_slice(h, o) ==
    LET h1 == content_next(h)
        n == VecSurplusMut(RunsLen(Unwrap(h1.buffer).data))
    IN  IF n >= RunsLen(o) THEN ContentPutAll(h1, o)
        ELSE content_byte_slice(content_flush(ContentPutAll(h1, RunsTake(o, n))),
                                RunsDrop(o, n))

VARIABLES
    cntPc,       \* "new" until the capacity is set, then "run"
    cntHelper,   \* the H2ContentHelper with the builder and the output it borrows
    cntInput,    \* history: all the bytes given to byte_slice, in order
    cntFlushed,  \* history: for every emitted frame, whether flush emitted it
    cntOps       \* the number of calls made

cntVars == <<cntPc, cntHelper, cntInput, cntFlushed, cntOps>>

\* the number of byte_slice and flush calls, at most
MaxCntOps == 4

CntCapacities == {0, 1, 3}

\* slices shorter than, as long as and longer than the capacities, one of
\* them longer than 4096
CntSlices ==
    { <<>>, RunsOf(<<7>>), RunsOf(<<7, 9>>), RunsOf(<<9, 7, 7>>), RunsOf(<<7, 9, 7, 9>>),
      << <<5000, 0>> >> }

InitCnt ==
    /\ cntPc = "new"
    /\ cntHelper = H2ContentHelperNew(H2StreamIdentifierBuilderNew)
    /\ cntInput = <<>>
    /\ cntFlushed = <<>>
    /\ cntOps = 0

\* set_data_capacity, before any byte is given
CntSetDataCapacity ==
    /\ cntPc = "new"
    /\ \E n \in CntCapacities : cntHelper' = [cntHelper EXCEPT !.data_capacity = n]
    /\ cntPc' = "run"
    /\ UNCHANGED <<cntInput, cntFlushed, cntOps>>

CntByteSlice ==
    /\ cntPc = "run"
    /\ cntOps < MaxCntOps
    /\ \E o \in CntSlices :
          LET h == content_byte_slice(cntHelper, o)
          IN  /\ cntHelper' = h
              /\ cntInput' = RunsNorm(cntInput \o o)
              /\ cntFlushed' = cntFlushed
                     \o [i \in 1..(Len(h.output) - Len(cntHelper.output)) |-> FALSE]
    /\ cntOps' = cntOps + 1
    /\ UNCHANGED cntPc

CntFlush ==
    /\ cntPc = "run"
    /\ cntOps < MaxCntOps
    /\ LET h == content_flush(cntHelper)
       IN  /\ cntHelper' = h
           /\ cntFlushed' = cntFlushed
                  \o [i \in 1..(Len(h.output) - Len(cntHelper.output)) |-> TRUE]
    /\ cntOps' = cntOps + 1
    /\ UNCHANGED <<cntPc, cntInput>>

NextCnt ==
    \/ CntSetDataCapacity
    \/ CntByteSlice
    \/ CntFlush

\* the data of the frames from the k-th on, one after the other
RECURSIVE FramesData(_, _)
FramesData(output, k) ==
    IF k > Len(output) THEN <<>> ELSE output[k].data \o FramesData(output, k + 1)

\* the bytes the helper holds in its buffer
ContentBuffered == IF cntHelper.buffer = None THEN <<>> ELSE Unwrap(cntHelper.buffer).data

\* C29: no emitted DATA frame carries more than data_capacity bytes (4096
\* when the setting is 0), a frame emitted by byte_slice rather than by flush
\* is full, and the data of the emitted frames in order, followed by what is
\* still buffered, are the bytes given.
C29_SplitAtCapacity ==
    cntPc = "run" =>
        LET cap == check_capacity(cntHelper.data_capacity)
        IN  /\ \A k \in 1..Len(cntHelper.output) :
                  /\ RunsLen(cntHelper.output[k].data) <= cap
                  /\ ~cntFlushed[k] => RunsLen(cntHelper.output[k].data) = cap
            /\ RunsNorm(FramesData(cntHelper.output, 1) \o ContentBuffered) = cntInput
-----------------------------------------------------------------------------
(* io.rs: BufWriteByte, a WriteByte that stages bytes in front of another.  *)

\* the inner writer T: a Vec<u8>, which takes everything, or a writer with no
\* room left, whose writes return an error and keep nothing
InnerVec == [kind |-> "Vec", data |-> <<>>]
InnerFull == [kind |-> "Full", data |-> <<>>]

\* T::put_all
inner_put_all(inner, o) ==
    IF inner.kind = "Vec"
    THEN [inner |-> [inner EXCEPT !.data = @ \o o], r |-> None]
    ELSE [inner |-> inner, r |-> Some("Error")]

\* T::put_repeat
inner_put_repeat(inner, cnt, o) ==
    IF inner.kind = "Vec"
    THEN [inner |-> [inner EXCEPT !.data = @ \o Repeat(cnt, o)], r |-> None]
    ELSE [inner |-> inner, r |-> Some("Error")]

\* BufWriteByte::new
BufWriteByteNew(inner, buf_size) == [buf |-> <<>>, buf_size |-> buf_size, inner |-> inner]

\* BufWriteByte::put_check.  The `?` is applied to an Option<Error> in a
\* function that returns Option<Error>: on None it returns None at once, on
\* Some(e) it yields e and the function goes on.
buf_put_check(w) ==
    IF Len(w.buf) >= w.buf_size
    THEN LET p == inner_put_all(w.inner, w.buf)
         IN  IF p.r = None
             THEN [w |-> [w EXCEPT !.inner = p.inner], r |-> None]
             ELSE [w |-> [w EXCEPT !.inner = p.inner, !.buf = <<>>], r |-> None]
    ELSE [w |-> w, r |-> None]

\* BufWriteByte::put
buf_put(w, o) ==
    LET c == buf_put_check(w)
    IN  IF c.r = None THEN c
        ELSE [w |-> [c.w EXCEPT !.buf = Append(@, o)], r |-> None]

\* BufWriteByte::put_repeat
buf_put_repeat(w, cnt, o) ==
    LET c == buf_put_check(w)
    IN  IF c.r = None THEN c
        ELSE IF Len(c.w.buf) + cnt >= c.w.buf_size
             THEN LET p == inner_put_all(c.w.inner, c.w.buf)
                  IN  IF p.r = None THEN [w |-> [c.w EXCEPT !.inner = p.inner], r |-> None]
                      ELSE LET q == inner_put_repeat(p.inner, cnt, o)
                           IN  [w |-> [c.w EXCEPT !.inner = q.inner, !.buf = <<>>], r |-> q.r]
             ELSE [w |-> [c.w EXCEPT !.buf = @ \o Repeat(cnt, o)], r |-> None]

\* BufWriteByte::put_all
buf_put_all(w, o) ==
    LET c == buf_put_check(w)
    IN  IF c.r = None THEN c
        ELSE IF Len(c.w.buf) + Len(o) >= c.w.buf_size
             THEN LET p == inner_put_all(c.w.inner, c.w.buf)
                  IN  IF p.r = None THEN [w |-> [c.w EXCEPT !.inner = p.inner], r |-> None]
                      ELSE LET q == inner_put_all(p.inner, o)
                           IN  [w |-> [c.w EXCEPT !.inner = q.inner, !.buf = <<>>], r |-> q.r]
             ELSE [w |-> [c.w EXCEPT !.buf = @ \o o], r |-> None]

VARIABLES
    bufPc,       \* "new" before BufWriteByte::new, "ready" after
    bufWriter,   \* the BufWriteByte
    bufCalls     \* history: every write call, its bytes and what it returned

bufVars == <<bufPc, bufWriter, bufCalls>>

\* the number of write calls, at most
MaxBufOps == 3

BufSizes == {0, 1, 2, 4}
BufInners == {InnerVec, InnerFull}
BufPutBytes == {1, 2}
BufPutAllBufs == {<<>>, <<3>>, <<4, 5>>, <<6, 7, 8, 9>>}
BufPutRepeatCounts == {0, 1, 3}

InitBuf ==
    /\ bufPc = "new"
    /\ bufWriter = BufWriteByteNew(InnerVec, 0)
    /\ bufCalls = <<>>

BufNew ==
    /\ bufPc = "new"
    /\ \E inner \in BufInners, n \in BufSizes : bufWriter' = BufWriteByteNew(inner, n)
    /\ bufPc' = "ready"
    /\ UNCHANGED bufCalls

BufCanCall == bufPc = "ready" /\ Len(bufCalls) < MaxBufOps

BufPut ==
    /\ BufCanCall
    /\ \E o \in BufPutBytes :
          LET c == buf_put(bufWriter, o)
          IN  /\ bufWriter' = c.w
              /\ bufCalls' = Append(bufCalls, [op |-> "put", bytes |-> <<o>>, r |-> c.r])
    /\ UNCHANGED bufPc

BufPutRepeat ==
    /\ BufCanCall
    /\ \E cnt \in BufPutRepeatCounts :
          LET c == buf_put_repeat(bufWriter, cnt, 0)
          IN  /\ bufWriter' = c.w
              /\ bufCalls' = Append(bufCalls, [op |-> "put_repeat", bytes |-> Repeat(cnt, 0), r |-> c.r])
    /\ UNCHANGED bufPc

BufPutAll ==
    /\ BufCanCall
    /\ \E o \in BufPutAllBufs :
          LET c == buf_put_all(bufWriter, o)
          IN  /\ bufWriter' = c.w
              /\ bufCalls' = Append(bufCalls, [op |-> "put_all", bytes |-> o, r |-> c.r])
    /\ UNCHANGED bufPc

NextBuf ==
    \/ BufNew
    \/ BufPut
    \/ BufPutRepeat
    \/ BufPutAll

\* the bytes of the calls that returned no error, in order
RECURSIVE BufAccepted(_)
BufAccepted(calls) ==
    IF calls = <<>> THEN <<>>
    ELSE LET c == calls[Len(calls)]
         IN  BufAccepted(DropLast(calls)) \o (IF c.r = None THEN c.bytes ELSE <<>>)

\* C32: the bytes delivered to the inner writer followed by the staging
\* buffer are the bytes written; after a call that returned no error the
\* staging buffer holds no more than its threshold (one byte when the
\* threshold is 0); and with an
\* inner writer that refuses, a call that has to hand bytes over returns the
\* inner writer's error.
C32_StagedThenDelivered ==
    bufPc = "ready" =>
        /\ bufWriter.inner.data \o bufWriter.buf = BufAccepted(bufCalls)
        /\ Len(bufWriter.buf) <= (IF bufWriter.buf_size = 0 THEN 1 ELSE bufWriter.buf_size)
        /\ \A k \in 1..Len(bufCalls) :
              (bufWriter.inner.kind = "Full" /\ Len(bufCalls[k].bytes) >= bufWriter.buf_size
                  /\ bufCalls[k].bytes # <<>>)
                  => bufCalls[k].r # None
-----------------------------------------------------------------------------
(* H2ContentHelper::read_byte over a slice reader, one turn of its loop at *)
(* a time: h2/assist/mod.rs, io.rs.                                        *)

\* ReadByte::fetch_some for a slice: fetch_all(surplus())
fetch_some(reader) == fetch_all(Len(reader), reader)

VARIABLES
    rdbPc,       \* "new", "loop" inside read_byte, "returned"
    rdbInput,    \* the bytes of the reader when read_byte was called
    rdbReader,   \* the bytes the reader has left
    rdbHelper,   \* the H2ContentHelper
    rdbGiven,    \* history: the bytes given to byte_slice so far, in order
    rdbTurns     \* history: the turns of the loop so far, counted up to MaxRdbTurns
                 \* and by their parity from there on

rdbVars == <<rdbPc, rdbInput, rdbReader, rdbHelper, rdbGiven, rdbTurns>>

\* the turns of the loop that are counted
MaxRdbTurns == 4

\* the length of the reader, at most
MaxRdbLen == 3

RECURSIVE RdbReaders(_)
RdbReaders(n) ==
    IF n = 0 THEN {<<>>}
    ELSE RdbReaders(n - 1)
           \cup { Append(s, b) : s \in { t \in RdbReaders(n - 1) : Len(t) = n - 1 }, b \in {7, 9} }

InitRdb ==
    /\ rdbPc = "new"
    /\ rdbInput = <<>>
    /\ rdbReader = <<>>
    /\ rdbHelper = H2ContentHelperNew(H2StreamIdentifierBuilderNew)
    /\ rdbGiven = <<>>
    /\ rdbTurns = 0

\* helper.set_data_capacity(n); helper.read_byte(&mut r)
RdbCall ==
    /\ rdbPc = "new"
    /\ \E n \in CntCapacities, r \in RdbReaders(MaxRdbLen) :
          /\ rdbHelper' = [rdbHelper EXCEPT !.data_capacity = n]
          /\ rdbInput' = r
          /\ rdbReader' = r
    /\ rdbPc' = "loop"
    /\ UNCHANGED <<rdbGiven, rdbTurns>>

\* one evaluation of `while let Some(o) = r.fetch_some()` and of the body
RdbTurn ==
    /\ rdbPc = "loop"
    /\ LET f == fetch_some(rdbReader)
       IN  IF f.v # None
           THEN /\ rdbHelper' = content_byte_slice(rdbHelper, RunsOf(Unwrap(f.v)))
                /\ rdbReader' = f.rest
                /\ rdbGiven' = rdbGiven \o Unwrap(f.v)
                /\ rdbTurns' = IF rdbTurns < MaxRdbTurns THEN rdbTurns + 1
                               ELSE MaxRdbTurns - 1
                /\ UNCHANGED rdbPc
           ELSE /\ rdbPc' = "returned"
                /\ UNCHANGED <<rdbReader, rdbHelper, rdbGiven, rdbTurns>>
    /\ UNCHANGED rdbInput

NextRdb ==
    \/ RdbCall
    \/ RdbTurn

\* C38: read_byte returns for every finite reader, every byte of which has
\* been given to byte_slice once.
C38_ReadByteReturns ==
    (rdbPc = "loop") ~> (rdbPc = "returned" /\ rdbGiven = rdbInput)

\* ---------------------------------------------------------------------------
\* The frame decoders on arbitrary slices: what they index, what the accessors
\* of the decoder hand out
\* ---------------------------------------------------------------------------

\* the places get_header indexes, as half-open ranges: o[0] .. o[4], &o[5..9]
get_header_index == { <<i, i + 1>> : i \in 0..4 } \cup { <<5, 9>> }

\* HeadersDecoder::decode with the padded priority read behind `v_len > 13`
HeadersDecoderIndex_one_short(v) ==
    LET v_len == Len(v)
        flags == v[5]
    IN  get_header_index
            \cup (IF bit_eq(flags, PADDED_FLAG) /\ v_len > 9 THEN { <<9, 10>> } ELSE {})
            \cup (IF bit_eq(flags, PRIORITY_FLAG)
                  THEN IF bit_eq(flags, PADDED_FLAG)
                       THEN (IF v_len > 13 THEN { <<10, 15>> } ELSE {})
                       ELSE (IF v_len > 13 THEN { <<9, 14>> } ELSE {})
                  ELSE {})

\* HeadersDecoder::decode: the places of v it indexes
HeadersDecoderIndex(v) ==
    LET v_len == Len(v)
        flags == v[5]
    IN  get_header_index
            \cup (IF bit_eq(flags, PADDED_FLAG) /\ v_len > 9 THEN { <<9, 10>> } ELSE {})
            \cup (IF bit_eq(flags, PRIORITY_FLAG)
                  THEN IF bit_eq(flags, PADDED_FLAG)
                       THEN (IF v_len > 14 THEN { <<10, 15>> } ELSE {})
                       ELSE (IF v_len > 13 THEN { <<9, 14>> } ELSE {})
                  ELSE {})

\* h2 FrameDecoder::decode and the decoder it dispatches to: the places of buf
\* they index
FrameDecoderIndex(buf) ==
    IF Len(buf) >= FRAME_HEADER_LENGTH
    THEN LET v_len == Len(buf)
             isPadded == bit_eq(buf[5], PADDED_FLAG)
             pad == IF isPadded /\ v_len > 9 THEN { <<9, 10>> } ELSE {}
         IN  { <<3, 4>> } \cup
             CASE buf[4] = DATA_FRAME_TYPE -> get_header_index \cup pad
               [] buf[4] = HEADERS_FRAME_TYPE -> HeadersDecoderIndex(buf)
               [] buf[4] = PRIORITY_FRAME_TYPE ->
                     IF v_len < FRAME_HEADER_LENGTH + PRIORITY_LENGTH THEN {}
                     ELSE get_header_index \cup (IF v_len >= 14 THEN { <<9, 14>> } ELSE {})
               [] buf[4] = RST_STREAM_FRAME_TYPE ->
                     IF v_len < FRAME_HEADER_LENGTH + RST_STREAM_LENGTH THEN {}
                     ELSE get_header_index
                              \cup (IF v_len >= 13 THEN { <<i, i + 1>> : i \in 9..12 } ELSE {})
               [] buf[4] = SETTINGS_FRAME_TYPE -> get_header_index
               [] buf[4] = PUSH_PROMISE_FRAME_TYPE ->
                     IF v_len < 13 THEN {}
                     ELSE get_header_index \cup
                          (IF isPadded
                           THEN (IF v_len > 9 THEN { <<9, 10>> }
                                 ELSE IF v_len >= 14 THEN { <<10, 14>> } ELSE {})
                           ELSE (IF v_len >= 13 THEN { <<9, 13>> } ELSE {}))
               [] buf[4] = PING_FRAME_TYPE ->
                     IF v_len < FRAME_HEADER_LENGTH + PING_LENGTH THEN {}
                     ELSE get_header_index
                              \cup (IF v_len >= 17 THEN { <<i, i + 1>> : i \in 9..16 } ELSE {})
               [] buf[4] = GOAWAY_FRAME_TYPE ->
                     IF v_len < 17 THEN {}
                     ELSE get_header_index
                              \cup (IF v_len >= 13 THEN { <<9, 13>> } ELSE {})
                              \cup (IF v_len >= 17 THEN { <<i, i + 1>> : i \in 13..16 } ELSE {})
               [] buf[4] = WINDOW_UPDATE_FRAME_TYPE ->
                     IF v_len < FRAME_HEADER_LENGTH + WINDOW_UPDATE_LENGTH THEN {}
                     ELSE get_header_index \cup (IF v_len >= 13 THEN { <<9, 13>> } ELSE {})
               [] buf[4] = CONTINUATION_FRAME_TYPE -> get_header_index
               [] OTHER -> {}
    ELSE {}

\* h3 FrameDecoder::decode and the decoder it dispatches to: buf[0], then
\* &v[1..]; everything behind it is read through fetch
H3FrameDecoderIndex(buf) ==
    IF Len(buf) >= 2
    THEN { <<0, 1>> } \cup
         (IF buf[1] \in {H3_DATA_FRAME_TYPE, H3_HEADERS_FRAME_TYPE, H3_CANCEL_PUSH_FRAME_TYPE,
                         H3_SETTINGS_FRAME_TYPE, H3_PUSH_PROMISE_FRAME_TYPE,
                         H3_GOAWAY_FRAME_TYPE, H3_MAX_PUSH_ID_FRAME_TYPE}
          THEN { <<1, Len(buf)>> } ELSE {})
    ELSE {}

RECURSIVE DecodeSettingLoop(_)
\* the loop of decode_setting: fetch_u16 then fetch_u32 until one gives None
DecodeSettingLoop(o) ==
    LET a == fetch_all(2, o)
    IN  IF a.v = None THEN <<>>
        ELSE LET b == fetch_all(4, a.rest)
             IN  IF b.v = None THEN <<>>
                 ELSE << <<from_be_bytes(<<0, 0>> \o Unwrap(a.v)), from_be_bytes(Unwrap(b.v))>> >>
                          \o DecodeSettingLoop(b.rest)

\* h2 SettingsDecoder::decode_setting, given what setting() returns
decode_setting(setting) ==
    IF setting = None THEN <<>> ELSE DecodeSettingLoop(Unwrap(setting))

\* the accessor of an h2 decoder: data, field_block_fragment, setting,
\* additional_debug_data
FrameAccessor(d) ==
    CASE d.kind = "Data" -> d.data
      [] d.kind \in {"Headers", "PushPromise", "Continuation"} -> d.field_block_fragment
      [] d.kind = "Settings" -> d.setting
      [] d.kind = "Goaway" -> d.additional_debug_data
      [] OTHER -> None

\* the accessor of an h3 decoder: data, encoded_field_section, setting
H3FrameAccessor(d, buf) == IF d.kind \in H3PayloadKinds THEN H3Payload(d, buf) ELSE None

VARIABLES
    oobPc,        \* "idle", "decoded", "accessed"
    oobProto,     \* "h2" or "h3": whose FrameDecoder::decode ran
    oobSlice,     \* the slice given to FrameDecoder::decode
    oobIndex,     \* the ranges of the slice the decoding indexed
    oobDecoder,   \* the decoder returned
    oobAccess,    \* what the accessor returned
    oobSettings   \* what decode_setting returned

oobVars == <<oobPc, oobProto, oobSlice, oobIndex, oobDecoder, oobAccess, oobSettings>>

\* the longest run of bytes behind an h2 frame header, and the longest h3 slice
MaxOobPayload == 12

\* the length an h2 header declares
OobDeclared == {0, 1, 6, 12, 200}

\* the byte behind the h2 header, read as pad length when PADDED is set
OobPadBytes == {0, 3, 255}

\* the second byte of an h3 slice: the first byte of the length
OobVarBytes == {0, 3, 64, 128, 192, 255}

\* the first byte of an h3 slice: the frame types and one that is none
OobH3Types == {0, 1, 2, 3, 4, 5, 7, 13}

OobTail == [i \in 1..MaxOobPayload |-> i]

InitOob ==
    /\ oobPc = "idle"
    /\ oobProto = "h2"
    /\ oobSlice = <<>>
    /\ oobIndex = {}
    /\ oobDecoder = [kind |-> "Invalid", err |-> {}]
    /\ oobAccess = None
    /\ oobSettings = <<>>

\* h2 FrameDecoder::decode on n bytes: a header for frame type t with flags f
\* declaring length l, the byte p, the bytes 1, 2, ..
OobDecode ==
    /\ oobPc = "idle"
    /\ \E t \in 0..10, l \in OobDeclared, f \in FrmFlags, p \in OobPadBytes,
          n \in 0..(FRAME_HEADER_LENGTH + MaxOobPayload) :
         LET v == SubSeq(fill_header(l, t, f, 1) \o <<p>> \o OobTail, 1, n)
         IN  /\ oobSlice' = v
             /\ oobIndex' = FrameDecoderIndex(v)
             /\ oobDecoder' = FrameDecoderDecode(v)
    /\ oobProto' = "h2"
    /\ oobPc' = "decoded"
    /\ UNCHANGED <<oobAccess, oobSettings>>

\* h3 FrameDecoder::decode on n bytes: the type t, the byte p, the bytes 1, 2, ..
OobDecodeH3 ==
    /\ oobPc = "idle"
    /\ \E t \in OobH3Types, p \in OobVarBytes, n \in 0..MaxOobPayload :
         LET v == SubSeq(<<t, p>> \o OobTail, 1, n)
         IN  /\ oobSlice' = v
             /\ oobIndex' = H3FrameDecoderIndex(v)
             /\ oobDecoder' = H3FrameDecoderDecode(v)
    /\ oobProto' = "h3"
    /\ oobPc' = "decoded"
    /\ UNCHANGED <<oobAccess, oobSettings>>

\* the accessor of the decoder returned, and decode_setting on an h2
\* SettingsDecoder
OobAccess ==
    /\ oobPc = "decoded"
    /\ oobAccess' = IF oobProto = "h2" THEN FrameAccessor(oobDecoder)
                    ELSE H3FrameAccessor(oobDecoder, oobSlice)
    /\ oobSettings' = IF oobProto = "h2" /\ oobDecoder.kind = "Settings"
                      THEN decode_setting(oobDecoder.setting) ELSE <<>>
    /\ oobPc' = "accessed"
    /\ UNCHANGED <<oobProto, oobSlice, oobIndex, oobDecoder>>

NextOob ==
    \/ OobDecode
    \/ OobDecodeH3
    \/ OobAccess

\* s is a run of consecutive bytes of v
IsSubSlice(s, v) ==
    \E a \in 0..Len(v) : a + Len(s) <= Len(v) /\ SubSeq(v, a + 1, a + Len(s)) = s

\* C39: on every slice the h2 and h3 FrameDecoder::decode index only places
\* inside the slice; a slice too short for a header gives the Invalid marker;
\* each accessor returns None or bytes of the slice, None when its range ends
\* behind the slice or starts behind its own end; decode_setting reads whole
\* six-byte settings of the slice and no more
C39_DecodeStaysInside ==
    oobPc # "idle" =>
        /\ \A r \in oobIndex : r[1] <= r[2] /\ r[2] <= Len(oobSlice)
        /\ Len(oobSlice) < (IF oobProto = "h2" THEN FRAME_HEADER_LENGTH ELSE 2)
               => oobDecoder.kind = "Invalid" /\ oobIndex = {}
        /\ oobPc = "accessed" =>
             /\ oobAccess # None => IsSubSlice(Unwrap(oobAccess), oobSlice)
             /\ (/\ oobProto = "h2"
                 /\ oobDecoder.kind \in {"Data", "Headers", "PushPromise"}
                 /\ \/ ~oobDecoder.padded /\ oobDecoder.length + FRAME_HEADER_LENGTH > Len(oobSlice)
                    \/ oobDecoder.padded /\ oobDecoder.pad_length >= oobDecoder.length)
                    => oobAccess = None
             /\ Len(oobSettings) * 6 <= Len(oobSlice) - FRAME_HEADER_LENGTH
                    \/ oobSettings = <<>>
             /\ \A i \in 1..Len(oobSettings) :
                    oobSettings[i] = <<from_be_bytes(<<0, 0>> \o SubSeq(oobSlice, 6 * i + 4, 6 * i + 5)),
                                       from_be_bytes(SubSeq(oobSlice, 6 * i + 6, 6 * i + 9))>>

\* a padded HEADERS frame with PRIORITY cut after fourteen bytes, with a pad
\* length greater than the length declared: indexed up to the pad length, no
\* fragment; and an h2 SETTINGS slice of two settings decoded
C39_Witness ==
    /\ oobPc = "accessed"
    /\ oobProto = "h2"
    /\ oobDecoder.kind = "Headers"
    /\ oobDecoder.padded /\ oobDecoder.priority
    /\ Len(oobSlice) = 14
    /\ oobDecoder.pad_length = 255
    /\ oobIndex = get_header_index \cup { <<3, 4>>, <<9, 10>> }
    /\ oobAccess = None
    /\ "LengthShortage" \in oobDecoder.err

\* ---------------------------------------------------------------------------
\* decode_integer on the 64-bit word: the shift, the product and the sum with
\* the bits they lose
\* ---------------------------------------------------------------------------

\* (d as usize) * (1 << m) for d < 128 and m < 64, kept on 64 bits: the word,
\* and whether the product went over it
WordProduct(d, m) ==
    LET q == m \div 8
        t == d * Pow2(m % 8)
        lo == t % 256
        hi == t \div 256
        At(j) == IF j = 8 - q THEN lo ELSE IF j = 7 - q THEN hi ELSE 0
    IN  [v |-> <<At(1), At(2), At(3), At(4), At(5), At(6), At(7), At(8)>>,
         lost |-> q = 7 /\ hi # 0]

RECURSIVE CarryInto(_, _, _)
\* the carry that reaches byte j of a + b
CarryInto(a, b, j) ==
    IF j = 8 THEN 0 ELSE (a[j + 1] + b[j + 1] + CarryInto(a, b, j + 1)) \div 256

\* a + b kept on 64 bits: the word, and whether the sum went over it
WordSum(a, b) ==
    LET At(j) == (a[j] + b[j] + CarryInto(a, b, j)) % 256
    IN  [v |-> <<At(1), At(2), At(3), At(4), At(5), At(6), At(7), At(8)>>,
         lost |-> a[1] + b[1] + CarryInto(a, b, 1) >= 256]

RECURSIVE DecodeIntegerWordLoop(_, _, _, _, _)
\* the loop of decode_integer on the 64-bit word. With overflow checks the
\* first shift, product or sum over the word panics (no value); without them
\* the shift takes m modulo 64 and the product and the sum wrap. lost names
\* the operations that went over the word
DecodeIntegerWordLoop(n, m, reader, checks, lost) ==
    IF reader = <<>> THEN [v |-> Some(n), rest |-> reader, lost |-> lost]
    ELSE LET i == Head(reader)
             p == WordProduct(BitAnd(i, 127), m % 64)
             s == WordSum(n, p.v)
             now == (IF m >= 64 THEN {"shift"} ELSE {})
                        \cup (IF p.lost THEN {"product"} ELSE {})
                        \cup (IF s.lost THEN {"sum"} ELSE {})
         IN  IF checks /\ now # {}
             THEN [v |-> None, rest |-> Tail(reader),
                   lost |-> IF m >= 64 THEN {"shift"}
                            ELSE IF p.lost THEN {"product"} ELSE {"sum"}]
             ELSE IF BitAnd(i, 128) = 0
             THEN [v |-> Some(s.v), rest |-> Tail(reader), lost |-> lost \cup now]
             ELSE DecodeIntegerWordLoop(s.v, m + 7, Tail(reader), checks, lost \cup now)

\* decode_integer(n, reader) on the 64-bit word, in a build with overflow
\* checks (checks) or without
decode_integer_word(n, reader, checks) ==
    DecodeIntegerWordLoop(U64OfNat(n), 0, reader, checks, {})

VARIABLES
    ovfPc,       \* "idle", "returned"
    ovfArgs,     \* n, the reader and whether the build checks overflow
    ovfResult    \* the value (None: panicked), the bytes left, the operations
                 \* that went over the word

ovfVars == <<ovfPc, ovfArgs, ovfResult>>

\* the most continuation bytes in a reader
MaxOvfCont == 11

\* the first byte of a representation whose prefix is full, as decode_u8
\* matches it: indexed, incremental indexing, size update, never indexed,
\* without indexing
OvfFirstBytes == {255, 127, 63, 31, 15}

OvfContBytes == {128, 129, 255}

OvfTails == {<<>>, <<0>>, <<1>>, <<2>>, <<127>>, <<1, 5>>}

OvfReaders ==
    { Repeat(k, c) \o t : k \in 0..MaxOvfCont, c \in OvfContBytes, t \in OvfTails }

\* the prefix value decode_u8 hands to decode_integer for the first byte i
OvfPrefixOf(i) ==
    CASE i = 255 -> 127
      [] i = 127 -> 63
      [] i = 63 -> 31
      [] OTHER -> 15

InitOvf ==
    /\ ovfPc = "idle"
    /\ ovfArgs = [n |-> 0, reader |-> <<>>, checks |-> TRUE]
    /\ ovfResult = [v |-> None, rest |-> <<>>, lost |-> {}]

\* decode_integer(n, reader) behind a full prefix found by decode_u8
OvfDecodeInteger ==
    /\ ovfPc = "idle"
    /\ \E i \in OvfFirstBytes, reader \in OvfReaders, checks \in BOOLEAN :
         /\ ovfArgs' = [n |-> OvfPrefixOf(i), reader |-> reader, checks |-> checks]
         /\ ovfResult' = decode_integer_word(OvfPrefixOf(i), reader, checks)
    /\ ovfPc' = "returned"

NextOvf ==
    \/ OvfDecodeInteger

\* C40: decode_integer computes its result without going over the 64-bit
\* word: neither the shift 1 << m nor the product nor the running sum loses
\* bits, however many continuation bytes the reader holds
C40_StaysInWord ==
    ovfPc = "returned" => ovfResult.lost = {} /\ ovfResult.v # None

-----------------------------------------------------------------------------
(* The encoder helper driven through its public operations.                *)

VARIABLES
    encPc,        \* "new" before the helper is made, "ready" after
    encHelper,    \* the H2EncodeFieldsHelper, its stream identifier builder and its sink
    encHistory    \* history: the operations called so far and the bytes each wrote

encVars == <<encPc, encHelper, encHistory>>

\* the number of operations called on one helper
MaxEncOps == 3

EncFieldsCapacities == {0, 1, 3}

EncContinuationCapacities == {0, 1, 2}

EncPutBytes == {130}

EncPutAllBufs == { <<>>, <<130, 132, 134>> }

EncPutRepeatCounts == {0, 2}

EncFieldReps ==
    { [kind |-> "Indexed", n |-> 2],
      [kind |-> "WithoutIndexingIndexedName", n |-> 2, value |-> OctetsRef(<<88>>)] }

EncFieldVecs ==
    { <<>>, <<[kind |-> "Indexed", n |-> 2], [kind |-> "Indexed", n |-> 6]>> }

\* GET http /, the method X alone, and POST https a / with one header k: v
EncRequests ==
    { [method |-> <<71, 69, 84>>, scheme |-> Some(<<104, 116, 116, 112>>),
       authority |-> None, path |-> Some(<<47>>), headers |-> <<>>],
      [method |-> <<88>>, scheme |-> None, authority |-> None, path |-> None,
       headers |-> <<>>],
      [method |-> <<80, 79, 83, 84>>, scheme |-> Some(<<104, 116, 116, 112, 115>>),
       authority |-> Some(<<97>>), path |-> Some(<<47>>),
       headers |-> add_field(<<>>, <<107>>, <<118>>)] }

InitEnc ==
    /\ encPc = "new"
    /\ encHelper = EncHelperNew(FALSE)
    /\ encHistory = <<>>

EncDone(op, bytes, r) == Append(encHistory, [op |-> op, bytes |-> bytes, r |-> r])

\* new or new_push_promise, then set_fields_capacity and set_continuation_capacity
EncCreate ==
    /\ encPc = "new"
    /\ \E pp \in BOOLEAN, fc \in EncFieldsCapacities, cc \in EncContinuationCapacities :
          encHelper' = [EncHelperNew(pp) EXCEPT !.fields_capacity = fc,
                                                !.continuation_capacity = cc]
    /\ encPc' = "ready"
    /\ UNCHANGED encHistory

EncCanCall == encPc = "ready" /\ Len(encHistory) < MaxEncOps

EncPut ==
    /\ EncCanCall
    /\ \E o \in EncPutBytes :
          /\ encHelper' = enc_put(encHelper, o)
          /\ encHistory' = EncDone("put", <<o>>, H2RequestNew)
    /\ UNCHANGED encPc

EncPutAll ==
    /\ EncCanCall
    /\ \E buf \in EncPutAllBufs :
          /\ encHelper' = enc_put_all(encHelper, buf)
          /\ encHistory' = EncDone("put_all", buf, H2RequestNew)
    /\ UNCHANGED encPc

EncPutRepeat ==
    /\ EncCanCall
    /\ \E cnt \in EncPutRepeatCounts :
          /\ encHelper' = enc_put_repeat(encHelper, cnt, 0)
          /\ encHistory' = EncDone("put_repeat", Repeat(cnt, 0), H2RequestNew)
    /\ UNCHANGED encPc

EncField ==
    /\ EncCanCall
    /\ \E a \in EncFieldReps :
          /\ encHelper' = enc_field(encHelper, a)
          /\ encHistory' = EncDone("field", FieldRepEncode(a), H2RequestNew)
    /\ UNCHANGED encPc

EncFields ==
    /\ EncCanCall
    /\ \E vec \in EncFieldVecs :
          /\ encHelper' = enc_fields(encHelper, vec)
          /\ encHistory' = EncDone("fields", EncodeReps(vec), H2RequestNew)
    /\ UNCHANGED encPc

\* pseudo_and_fields(r.pseudo_rep(), r.headers_rep())
EncPseudoAndFields ==
    /\ EncCanCall
    /\ \E r \in EncRequests :
         \E order \in IterOrders(DOMAIN r.headers) :
            /\ encHelper' = enc_pseudo_and_fields(encHelper, pseudo_rep(r),
                                                  headers_rep(r, order))
            /\ encHistory' = EncDone("pseudo_and_fields",
                                     EncodeReps(pseudo_rep(r) \o headers_rep(r, order)), r)
    /\ UNCHANGED encPc

EncFlush ==
    /\ EncCanCall
    /\ encHelper' = enc_flush(encHelper)
    /\ encHistory' = EncDone("flush", <<>>, H2RequestNew)
    /\ UNCHANGED encPc

\* the caller lets the helper go out of scope.  H2EncodeFieldsHelper has no
\* Drop implementation: the encoder in its buffer is freed with it, and the
\* sink, which it only borrows, keeps what it was handed before.
EncDrop ==
    /\ encPc = "ready"
    /\ encHelper' = enc_drop(encHelper)
    /\ encPc' = "dropped"
    /\ UNCHANGED encHistory

NextEnc ==
    \/ EncCreate
    \/ EncPut
    \/ EncPutAll
    \/ EncPutRepeat
    \/ EncField
    \/ EncFields
    \/ EncPseudoAndFields
    \/ EncFlush
    \/ EncDrop

\* the frame type, the flags and the field block fragment of a frame as the
\* helper's encoders write it (no padding, no priority)
FrameType(frame) == get_header(frame)[2]

FrameFlags(frame) == get_header(frame)[3]

FrameFragment(frame) ==
    IF FrameType(frame) = PUSH_PROMISE_FRAME_TYPE
    THEN SubSeq(frame, FRAME_HEADER_LENGTH + 5, Len(frame))
    ELSE SubSeq(frame, FRAME_HEADER_LENGTH + 1, Len(frame))

RECURSIVE ConcatFragments(_)
ConcatFragments(frames) ==
    IF frames = <<>> THEN <<>>
    ELSE FrameFragment(Head(frames)) \o ConcatFragments(Tail(frames))

RECURSIVE BytesWritten(_)
BytesWritten(history) ==
    IF history = <<>> THEN <<>> ELSE Head(history).bytes \o BytesWritten(Tail(history))

\* the capacity the i-th frame of a helper is meant to have
FrameCapacity(h, i) ==
    check_capacity(IF i = 1 THEN h.fields_capacity ELSE h.continuation_capacity)

\* the history is some writes followed by one flush, the last call
OneBlockFlushed(ops) ==
    /\ encHistory # <<>>
    /\ encHistory[Len(encHistory)].op = "flush"
    /\ \A i \in 1..(Len(encHistory) - 1) : encHistory[i].op \in ops

\* C4: a request encoded with pseudo_and_fields(pseudo_rep, headers_rep) and
\* flush, its frames decoded in order with FrameDecoder and headers /
\* headers_cont over a fresh table, comes back with the same method, scheme,
\* authority and path, whatever the capacities.
C4_RequestRoundTrip ==
    (/\ ~encHelper.push_promise
     /\ Len(encHistory) = 2
     /\ encHistory[1].op = "pseudo_and_fields"
     /\ encHistory[2].op = "flush")
        => /\ HeadersContFragments(encHelper.output) # None
           /\ LET req == DecodeRequest(encHelper.output)
                  r == encHistory[1].r
              IN  /\ req.method = r.method
                  /\ req.scheme = r.scheme
                  /\ req.authority = r.authority
                  /\ req.path = r.path

\* C5: once the block is flushed, END_HEADERS is set on the last frame handed
\* to the sink and on no other.
C5_EndHeadersOnLastOnly ==
    (OneBlockFlushed({"put", "put_all", "put_repeat", "field", "fields", "pseudo_and_fields"})
        /\ encHelper.output # <<>>)
        => \A i \in 1..Len(encHelper.output) :
              bit_eq(FrameFlags(encHelper.output[i]), END_HEADERS_FLAG)
                  <=> i = Len(encHelper.output)

\* C6: after field, fields, put, put_all and put_repeat calls and a flush, no
\* fragment is longer than its capacity (fields_capacity for the first frame,
\* continuation_capacity for the others), every frame but the last is full,
\* and the fragments in order are the bytes written.
C6_CutAtCapacity ==
    OneBlockFlushed({"put", "put_all", "put_repeat", "field", "fields"})
        => /\ \A i \in 1..Len(encHelper.output) :
                 Len(FrameFragment(encHelper.output[i])) <= FrameCapacity(encHelper, i)
           /\ \A i \in 1..(Len(encHelper.output) - 1) :
                 Len(FrameFragment(encHelper.output[i])) = FrameCapacity(encHelper, i)
           /\ ConcatFragments(encHelper.output) = BytesWritten(encHistory)

\* C7: the frames handed to the sink begin with one HEADERS frame (one
\* PUSH_PROMISE frame for new_push_promise) and go on with CONTINUATION
\* frames only, whatever operations were called.
C7_HeadersThenContinuations ==
    \A i \in 1..Len(encHelper.output) :
        FrameType(encHelper.output[i]) =
            IF i > 1 THEN CONTINUATION_FRAME_TYPE
            ELSE IF encHelper.push_promise THEN PUSH_PROMISE_FRAME_TYPE
            ELSE HEADERS_FRAME_TYPE

\* C31: when the helper is dropped, with or without a flush before, every
\* byte written to it has reached the sink in some frame.
C31_FlushedBeforeDrop ==
    encPc = "dropped" => ConcatFragments(encHelper.output) = BytesWritten(encHistory)

\* the stream identifier in the header of a frame
FrameStream(frame) == get_header(frame)[4]

\* C36: the frames emitted for one field block - the HEADERS or PUSH_PROMISE
\* frame and the CONTINUATION frames behind it - carry the same stream
\* identifier, and the identifier source was advanced once.
C36_OneStreamPerBlock ==
    (OneBlockFlushed({"put", "put_all", "put_repeat", "field", "fields", "pseudo_and_fields"})
        /\ encHelper.output # <<>>)
        => /\ \A i \in 1..Len(encHelper.output) :
                 FrameStream(encHelper.output[i]) = FrameStream(encHelper.output[1])
           /\ encHelper.next_id = 2

-----------------------------------------------------------------------------
(* HTTP/1.1 byte-driven parser: request.rs, response.rs, common.rs.  The   *)
(* BuildContext of both files is one record here; current_function and     *)
(* post_separator_function hold the name of the function they point to.    *)

CR == 13

LF == 10

SPACE == 32

HTAB == 9

DOT == 46

HYPHEN == 45

SLASH == 47

\* "HTTP/1.1"
VERSION == <<72, 84, 84, 80, 47, 49, 46, 49>>

is_crlf(b) == b = CR \/ b = LF

is_whitespace(b) == b = SPACE \/ b = HTAB

is_ascii_alphabetic(b) == (b >= 65 /\ b <= 90) \/ (b >= 97 /\ b <= 122)

is_ascii_digit(b) == b >= 48 /\ b <= 57

is_ascii_alphanumeric(b) == is_ascii_alphabetic(b) \/ is_ascii_digit(b)

is_ascii_graphic(b) == b >= 33 /\ b <= 126

\* to_str: lossy UTF-8 decoding; ASCII is kept, a byte that is not part of a
\* valid sequence is dropped
to_str(v) == SelectSeq(v, LAMBDA b : b < 128)

\* trim_whitespace(buf, index0, index1), offsets counted from 0
trim_whitespace(buf, index0, index1) ==
    LET front == { i \in index0..(index1 - 1) : ~is_whitespace(buf[i + 1]) }
        i0 == IF front = {} THEN index0 ELSE CHOOSE i \in front : \A j \in front : i <= j
        back == { i \in i0..(index1 - 1) : ~is_whitespace(buf[i + 1]) }
        i1 == IF back = {} THEN index1 ELSE (CHOOSE i \in back : \A j \in back : i >= j) + 1
    IN  <<i0, i1>>

\* BuildContext::new of request.rs (first = "method_first") and of
\* response.rs (first = "resp_version_first")
BuildContextNew(first) ==
    [current_function |-> first, post_separator_function |-> first, n |-> 0,
     method_vec |-> <<>>, target_vec |-> <<>>, version_vec |-> <<>>,
     status_code_vec |-> <<>>, reason |-> <<>>,
     header_name |-> <<>>, header_value_index |-> 0, headers |-> <<>>, body |-> 0,
     search_header_name |-> None, suspend |-> FALSE, finish |-> FALSE, err |-> FALSE]

space(c, b) ==
    IF b = SPACE THEN [c EXCEPT !.current_function = c.post_separator_function]
    ELSE [c EXCEPT !.err = TRUE]

cr(c, b) ==
    IF b = CR THEN [c EXCEPT !.current_function = "lf"]
    ELSE [c EXCEPT !.err = TRUE]

lf(c, b) ==
    IF b = LF THEN [c EXCEPT !.current_function = c.post_separator_function]
    ELSE IF b = CR THEN [c EXCEPT !.err = TRUE]
    ELSE [c EXCEPT !.current_function = "cr", !.err = TRUE]

colon(c, b) ==
    IF b = COLON THEN [c EXCEPT !.current_function = c.post_separator_function]
    ELSE [c EXCEPT !.err = TRUE]

header_name_first(c, b) ==
    IF is_ascii_alphabetic(b)
    THEN [c EXCEPT !.header_name = Append(@, b), !.current_function = "header_name_tail"]
    ELSE IF b = CR
    THEN cr([c EXCEPT !.post_separator_function = "body_first", !.current_function = "cr"], b)
    ELSE [c EXCEPT !.err = TRUE]

header_name_tail(c, b) ==
    IF is_ascii_alphanumeric(b) \/ b = HYPHEN
    THEN [c EXCEPT !.header_name = Append(@, b)]
    ELSE colon([c EXCEPT !.post_separator_function = "header_value_first",
                         !.current_function = "colon"], b)

header_value_tail(c, b) ==
    IF is_crlf(b)
    THEN LET name == to_str(c.header_name)
         IN  cr([c EXCEPT !.header_name = <<>>,
                          !.suspend = IF c.search_header_name = Some(name) THEN TRUE ELSE @,
                          !.headers = Append(@, <<name, c.header_value_index, c.n>>),
                          !.post_separator_function = "header_name_first",
                          !.current_function = "cr"], b)
    ELSE c

header_value_first(c, b) ==
    LET d == [c EXCEPT !.header_value_index = c.n, !.current_function = "header_value_tail"]
    IN  IF is_crlf(b) THEN header_value_tail(d, b) ELSE d

body_first(c, b) ==
    [c EXCEPT !.body = c.n, !.finish = TRUE, !.current_function = "body_tail"]

body_tail(c, b) == c

method_first(c, b) ==
    IF is_ascii_alphabetic(b)
    THEN [c EXCEPT !.method_vec = Append(@, b), !.current_function = "method_tail"]
    ELSE [c EXCEPT !.err = TRUE]

method_tail(c, b) ==
    IF is_ascii_alphabetic(b) THEN [c EXCEPT !.method_vec = Append(@, b)]
    ELSE space([c EXCEPT !.post_separator_function = "target_first",
                         !.current_function = "space"], b)

target_first(c, b) ==
    IF is_ascii_graphic(b)
    THEN [c EXCEPT !.target_vec = Append(@, b), !.current_function = "target_tail"]
    ELSE [c EXCEPT !.err = TRUE]

target_tail(c, b) ==
    IF is_ascii_graphic(b) THEN [c EXCEPT !.target_vec = Append(@, b)]
    ELSE space([c EXCEPT !.post_separator_function = "version_first",
                         !.current_function = "space"], b)

\* request.rs version_first
version_first(c, b) ==
    IF is_ascii_alphanumeric(b)
    THEN [c EXCEPT !.version_vec = Append(@, b), !.current_function = "version_tail"]
    ELSE [c EXCEPT !.err = TRUE]

\* request.rs version_tail
version_tail(c, b) ==
    IF is_ascii_alphanumeric(b) \/ b = DOT THEN [c EXCEPT !.version_vec = Append(@, b)]
    ELSE [cr([c EXCEPT !.post_separator_function = "header_name_first",
                       !.current_function = "cr"], b) EXCEPT !.suspend = TRUE]

\* response.rs version_first
resp_version_first(c, b) ==
    IF is_ascii_alphanumeric(b)
    THEN [c EXCEPT !.version_vec = Append(@, b), !.current_function = "resp_version_tail"]
    ELSE [c EXCEPT !.err = TRUE]

\* response.rs version_tail
resp_version_tail(c, b) ==
    IF is_ascii_alphanumeric(b) \/ b = DOT \/ b = SLASH
    THEN [c EXCEPT !.version_vec = Append(@, b)]
    ELSE space([c EXCEPT !.post_separator_function = "status_code_first",
                         !.current_function = "space"], b)

status_code_first(c, b) ==
    IF is_ascii_digit(b)
    THEN [c EXCEPT !.status_code_vec = Append(@, b), !.current_function = "status_code_tail"]
    ELSE [c EXCEPT !.err = TRUE]

status_code_tail(c, b) ==
    IF is_ascii_digit(b) THEN [c EXCEPT !.status_code_vec = Append(@, b)]
    ELSE space([c EXCEPT !.post_separator_function = "reason_first",
                         !.current_function = "space"], b)

reason_tail(c, b) ==
    IF is_crlf(b)
    THEN [cr([c EXCEPT !.post_separator_function = "header_name_first",
                       !.current_function = "cr"], b) EXCEPT !.suspend = TRUE]
    ELSE [c EXCEPT !.reason = Append(@, b)]

reason_first(c, b) ==
    LET d == [c EXCEPT !.reason = Append(@, b), !.current_function = "reason_tail"]
    IN  IF is_crlf(b) THEN reason_tail(d, b) ELSE d

\* accept: (context.current_function)(context), then n += 1
accept(c, b) ==
    LET f == c.current_function
        d == CASE f = "method_first" -> method_first(c, b)
               [] f = "method_tail" -> method_tail(c, b)
               [] f = "target_first" -> target_first(c, b)
               [] f = "target_tail" -> target_tail(c, b)
               [] f = "version_first" -> version_first(c, b)
               [] f = "version_tail" -> version_tail(c, b)
               [] f = "resp_version_first" -> resp_version_first(c, b)
               [] f = "resp_version_tail" -> resp_version_tail(c, b)
               [] f = "status_code_first" -> status_code_first(c, b)
               [] f = "status_code_tail" -> status_code_tail(c, b)
               [] f = "reason_first" -> reason_first(c, b)
               [] f = "reason_tail" -> reason_tail(c, b)
               [] f = "space" -> space(c, b)
               [] f = "cr" -> cr(c, b)
               [] f = "lf" -> lf(c, b)
               [] f = "colon" -> colon(c, b)
               [] f = "header_name_first" -> header_name_first(c, b)
               [] f = "header_name_tail" -> header_name_tail(c, b)
               [] f = "header_value_first" -> header_value_first(c, b)
               [] f = "header_value_tail" -> header_value_tail(c, b)
               [] f = "body_first" -> body_first(c, b)
               [] f = "body_tail" -> body_tail(c, b)
    IN  [d EXCEPT !.n = @ + 1]

\* accept_context: bytes from context.n on, until the end or a suspension
RECURSIVE accept_context(_, _)
accept_context(c, buf) ==
    IF c.n >= Len(buf) THEN c
    ELSE LET d == accept(c, buf[c.n + 1])
         IN  IF d.suspend THEN d ELSE accept_context(d, buf)

-----------------------------------------------------------------------------
(* RequestUnits (offsets into a caller's buffer), Request (owns its bytes) *)
(* and the response units: request.rs, response.rs.  A header map is a     *)
(* function from names to values.                                          *)

\* HashMap::insert
map_insert(map, k, v) ==
    [x \in DOMAIN map \cup {k} |-> IF x = k THEN v ELSE map[x]]

RECURSIVE map_insert_all(_, _)
map_insert_all(map, kvs) ==
    IF kvs = <<>> THEN map
    ELSE map_insert_all(map_insert(map, kvs[1][1], kvs[1][2]), Tail(kvs))

\* the String of a start-line field: filled from the context only while empty
TakeIfEmpty(field, vec) == IF field = <<>> THEN to_str(vec) ELSE field

\* the context's Vec after the same step: drained exactly when it was taken
DrainIfEmpty(field, vec) == IF field = <<>> THEN <<>> ELSE vec

\* the context once build has handed its results over and decided to keep it
KeepContext(c) ==
    IF c.suspend /\ ~c.finish
    THEN Some([c EXCEPT !.search_header_name = None, !.suspend = FALSE])
    ELSE None

\* RequestUnits::new
RequestUnitsNew ==
    [method |-> <<>>, target |-> <<>>, version |-> <<>>, headers |-> <<>>,
     body |-> 0, err |-> FALSE, build_context |-> Some(BuildContextNew("method_first"))]

\* RequestUnits::from_context followed by the tail of build: the units and
\* the drained context
UnitsFromContext(u, c, buf) ==
    LET trimmed == [i \in 1..Len(c.headers) |->
                        <<c.headers[i][1],
                          trim_whitespace(buf, c.headers[i][2], c.headers[i][3])>>]
        d == [c EXCEPT !.method_vec = DrainIfEmpty(u.method, @),
                       !.target_vec = DrainIfEmpty(u.target, @),
                       !.version_vec = DrainIfEmpty(u.version, @),
                       !.headers = <<>>]
    IN  [u EXCEPT !.method = TakeIfEmpty(@, c.method_vec),
                  !.target = TakeIfEmpty(@, c.target_vec),
                  !.version = TakeIfEmpty(@, c.version_vec),
                  !.headers = map_insert_all(@, trimmed),
                  !.body = c.body,
                  !.err = c.err,
                  !.build_context = KeepContext(d)]

\* units_header_body!::build; search is the header name header_value_index
\* has put into the context, or None
UnitsBuild(u, search, buf) ==
    IF u.build_context = None THEN u
    ELSE LET c0 == [Unwrap(u.build_context) EXCEPT
                        !.search_header_name = IF search = None THEN @ ELSE search]
         IN  UnitsFromContext(u, accept_context(c0, buf), buf)

\* context.n when accept_context returns inside that build, -1 when no
\* parsing ran
UnitsBuildStop(u, search, buf) ==
    IF u.build_context = None THEN -1
    ELSE LET c0 == [Unwrap(u.build_context) EXCEPT
                        !.search_header_name = IF search = None THEN @ ELSE search]
         IN  accept_context(c0, buf).n

\* new_request_units
new_request_units(bytes) == UnitsBuild(RequestUnitsNew, None, bytes)

\* does this call of header_value_index run build
UnitsHeaderBuilds(u, name) == name \notin DOMAIN u.headers /\ u.build_context # None

\* RequestUnits::header_value_index: the units afterwards
UnitsHeaderValueIndex(u, name, buf) ==
    IF UnitsHeaderBuilds(u, name) THEN UnitsBuild(u, Some(name), buf) ELSE u

\* RequestUnits::header_value: the value returned by that call
UnitsHeaderValue(u, name, buf) ==
    LET v == UnitsHeaderValueIndex(u, name, buf)
    IN  IF name \in DOMAIN v.headers
        THEN Some(SubSeq(buf, v.headers[name][1] + 1, v.headers[name][2]))
        ELSE None

\* RequestUnits::body: the units afterwards (the offset returned is .body)
UnitsBody(u, buf) == IF u.body = 0 THEN UnitsBuild(u, None, buf) ELSE u

\* Request::new
RequestNew(bytes) ==
    [method |-> <<>>, target |-> <<>>, version |-> <<>>, headers |-> <<>>,
     body |-> <<>>, err |-> FALSE, bytes |-> bytes,
     build_context |-> Some(BuildContextNew("method_first"))]

\* pack_request with headers and a body set afterwards; headers is the
\* sequence of <<name, value>> in the order the map iterates
pack_request(method, target, headers, body) ==
    [method |-> method, target |-> target, version |-> VERSION,
     headers |-> headers, body |-> body]

RECURSIVE pack_headers(_)
pack_headers(headers) ==
    IF headers = <<>> THEN <<>>
    ELSE headers[1][1] \o <<COLON>> \o headers[1][2] \o <<CR, LF>>
           \o pack_headers(Tail(headers))

\* header_body!::pack_headers_body
pack_headers_body(m) == pack_headers(m.headers) \o <<CR, LF>> \o m.body

\* Request::pack
pack(m) ==
    m.method \o <<SPACE>> \o m.target \o <<SPACE>> \o m.version \o <<CR, LF>>
      \o pack_headers_body(m)

\* the header loop of Request::from_context: headers are popped from the
\* back, each value split off the drained prefix vec
RECURSIVE RequestPopHeaders(_, _, _)
RequestPopHeaders(map, vec, hs) ==
    IF hs = <<>> THEN map
    ELSE LET h == hs[Len(hs)]
         IN  RequestPopHeaders(map_insert(map, h[1], SubSeq(vec, h[2] + 1, h[3])),
                               SubSeq(vec, 1, h[2]), DropLast(hs))

RECURSIVE MaxEnd(_)
MaxEnd(hs) ==
    IF hs = <<>> THEN 0
    ELSE LET r == MaxEnd(Tail(hs)) IN IF r < hs[1][3] THEN hs[1][3] ELSE r

\* Request::from_context followed by the tail of build
RequestFromContext(r, c) ==
    LET n == MaxEnd(c.headers)
        hs == [i \in 1..Len(c.headers) |->
                  LET t == trim_whitespace(r.bytes, c.headers[i][2], c.headers[i][3])
                  IN  <<c.headers[i][1], t[1], t[2]>>]
        vec == SubSeq(r.bytes, 1, n)
        bytes1 == IF n > 0 THEN SubSeq(r.bytes, n + 1, Len(r.bytes)) ELSE r.bytes
        takeBody == c.body > 0 /\ c.body >= n
        d == [c EXCEPT !.method_vec = DrainIfEmpty(r.method, @),
                       !.target_vec = DrainIfEmpty(r.target, @),
                       !.version_vec = DrainIfEmpty(r.version, @),
                       !.headers = IF n > 0 THEN <<>> ELSE hs]
    IN  [r EXCEPT !.method = TakeIfEmpty(@, c.method_vec),
                  !.target = TakeIfEmpty(@, c.target_vec),
                  !.version = TakeIfEmpty(@, c.version_vec),
                  !.headers = IF n > 0 THEN RequestPopHeaders(@, vec, hs) ELSE @,
                  !.body = IF takeBody
                           THEN SubSeq(bytes1, c.body - n + 1, Len(bytes1)) ELSE @,
                  !.bytes = IF takeBody THEN <<>> ELSE bytes1,
                  !.err = c.err,
                  !.build_context = KeepContext(d)]

\* header_body!::build
RequestBuild(r) ==
    IF r.build_context = None THEN r
    ELSE RequestFromContext(r, accept_context(Unwrap(r.build_context), r.bytes))

\* to_request
to_request(bytes) == RequestBuild(RequestNew(bytes))

\* Request::body: the request afterwards
RequestBody(r) == IF r.body = <<>> THEN RequestBuild(r) ELSE r

\* H1Response::with_status_code with a reason, headers and a body set
H1ResponseWith(status_code, reason, headers, body) ==
    [version |-> VERSION, status_code |-> status_code, reason |-> reason,
     headers |-> headers, body |-> body]

\* H1Response::export; Entity::export writes name ':' value CR LF per value
export(m) ==
    m.version \o <<SPACE>> \o m.status_code \o <<SPACE>> \o m.reason \o <<CR, LF>>
      \o pack_headers(m.headers) \o <<CR, LF>> \o m.body

\* H1ResponseUnits::new: the context after the first build, which runs the
\* parser to its first suspension (the end of the status line)
H1ResponseUnitsNew(s) == accept_context(BuildContextNew("resp_version_first"), s)

-----------------------------------------------------------------------------
(* The HTTP/1.1 parser in use: a caller receives a request in pieces and   *)
(* queries RequestUnits over the bytes received so far; or a packed        *)
(* request / exported response is parsed back.                             *)

VARIABLES h1Pc, h1Src, h1Msg, h1Avail, h1Units, h1Ops, h1Last, h1Rt

h1Vars == <<h1Pc, h1Src, h1Msg, h1Avail, h1Units, h1Ops, h1Last, h1Rt>>

\* number of header_value / body calls made on one RequestUnits
MaxH1Ops == 3

\* "A", "C", "Z"
H1NameA == <<65>>

H1NameC == <<67>>

H1NameZ == <<90>>

H1Names == {H1NameA, H1NameC, H1NameZ}

\* "G / H1" with A:b, C:d and body "xy"; "G / H1" with A: SP HTAB (a value
\* of whitespace only) and C: SP d HTAB; "GET / HTTP/1.1" with A: b
H1Requests ==
    { [method |-> <<71>>, target |-> <<47>>, version |-> <<72, 49>>,
       headers |-> << <<H1NameA, <<98>>>>, <<H1NameC, <<100>>>> >>, body |-> <<120, 121>>],
      [method |-> <<71>>, target |-> <<47>>, version |-> <<72, 49>>,
       headers |-> << <<H1NameA, <<32, 9>>>>, <<H1NameC, <<32, 100, 9>>>> >>, body |-> <<>>],
      pack_request(<<71, 69, 84>>, <<47>>, << <<H1NameA, <<32, 98>>>> >>, <<>>) }

\* requests built with pack_request: GET / alone; with A:b and body "xy"
H1PackRequests ==
    { pack_request(<<71, 69, 84>>, <<47>>, <<>>, <<>>),
      pack_request(<<71, 69, 84>>, <<47>>, << <<H1NameA, <<98>>>> >>, <<120, 121>>) }

\* responses: 200 with an empty reason; 200 OK with A:b and body "xy"
H1Responses ==
    { H1ResponseWith(<<50, 48, 48>>, <<>>, <<>>, <<>>),
      H1ResponseWith(<<50, 48, 48>>, <<79, 75>>, << <<H1NameA, <<98>>>> >>, <<120, 121>>) }

\* the last call made: its arguments, whether it ran build, where the parser
\* stopped, what it returned, and how many bytes the buffer held
H1NoCall ==
    [op |-> "none", name |-> <<>>, value |-> None, stop |-> -1, ran |-> FALSE,
     avail |-> 0]

\* the bytes received so far
H1Buf == SubSeq(h1Msg, 1, h1Avail)

InitH1 ==
    /\ h1Pc = "idle"
    /\ h1Src = None
    /\ h1Msg = <<>>
    /\ h1Avail = 0
    /\ h1Units = RequestUnitsNew
    /\ h1Ops = 0
    /\ h1Last = H1NoCall
    /\ h1Rt = None

\* new_request_units on the first bytes received of a message
H1NewRequestUnits ==
    /\ h1Pc = "idle"
    /\ \E m \in H1Requests : \E k \in 0..Len(pack(m)) :
         LET buf == SubSeq(pack(m), 1, k)
         IN  /\ h1Src' = m
             /\ h1Msg' = pack(m)
             /\ h1Avail' = k
             /\ h1Units' = new_request_units(buf)
             /\ h1Last' = [op |-> "new", name |-> <<>>, value |-> None,
                           stop |-> UnitsBuildStop(RequestUnitsNew, None, buf),
                           ran |-> TRUE, avail |-> k]
    /\ h1Pc' = "units"
    /\ UNCHANGED <<h1Ops, h1Rt>>

\* more bytes arrive in the caller's buffer
H1Receive ==
    /\ h1Pc = "units"
    /\ \E k \in (h1Avail + 1)..Len(h1Msg) : h1Avail' = k
    /\ UNCHANGED <<h1Pc, h1Src, h1Msg, h1Units, h1Ops, h1Last, h1Rt>>

\* RequestUnits::header_value(name, buf)
H1HeaderValue ==
    /\ h1Pc = "units"
    /\ h1Ops < MaxH1Ops
    /\ \E name \in H1Names :
         /\ h1Units' = UnitsHeaderValueIndex(h1Units, name, H1Buf)
         /\ h1Last' = [op |-> "header_value", name |-> name,
                       value |-> UnitsHeaderValue(h1Units, name, H1Buf),
                       stop |-> IF UnitsHeaderBuilds(h1Units, name)
                                THEN UnitsBuildStop(h1Units, Some(name), H1Buf) ELSE -1,
                       ran |-> UnitsHeaderBuilds(h1Units, name), avail |-> h1Avail]
    /\ h1Ops' = h1Ops + 1
    /\ UNCHANGED <<h1Pc, h1Src, h1Msg, h1Avail, h1Rt>>

\* RequestUnits::body(buf)
H1Body ==
    /\ h1Pc = "units"
    /\ h1Ops < MaxH1Ops
    /\ h1Units' = UnitsBody(h1Units, H1Buf)
    /\ h1Last' = [op |-> "body", name |-> <<>>, value |-> None,
                  stop |-> IF h1Units.body = 0
                           THEN UnitsBuildStop(h1Units, None, H1Buf) ELSE -1,
                  ran |-> h1Units.body = 0 /\ h1Units.build_context # None,
                  avail |-> h1Avail]
    /\ h1Ops' = h1Ops + 1
    /\ UNCHANGED <<h1Pc, h1Src, h1Msg, h1Avail, h1Rt>>

\* to_request(m.pack()), then body() to run the parser to the end
H1ToRequest ==
    /\ h1Pc = "idle"
    /\ \E m \in H1PackRequests :
         /\ h1Src' = m
         /\ h1Msg' = pack(m)
         /\ h1Avail' = Len(pack(m))
         /\ h1Rt' = Some(RequestBody(to_request(pack(m))))
    /\ h1Pc' = "request"
    /\ UNCHANGED <<h1Units, h1Ops, h1Last>>

\* H1ResponseUnits::new over the bytes of m.export()
H1ToResponse ==
    /\ h1Pc = "idle"
    /\ \E m \in H1Responses :
         /\ h1Src' = m
         /\ h1Msg' = export(m)
         /\ h1Avail' = Len(export(m))
         /\ h1Rt' = Some(H1ResponseUnitsNew(export(m)))
    /\ h1Pc' = "response"
    /\ UNCHANGED <<h1Units, h1Ops, h1Last>>

NextH1 ==
    \/ H1NewRequestUnits
    \/ H1Receive
    \/ H1HeaderValue
    \/ H1Body
    \/ H1ToRequest
    \/ H1ToResponse

-----------------------------------------------------------------------------
(* Properties of the HTTP/1.1 parser.                                      *)

\* parsing the whole message in one call, then body() to reach the end
WholeParse(msg) == UnitsBody(new_request_units(msg), msg)

SameResult(u, v) ==
    /\ u.method = v.method
    /\ u.target = v.target
    /\ u.version = v.version
    /\ u.headers = v.headers
    /\ u.body = v.body
    /\ u.err = v.err

\* offset just past the start line of m
StartLineEnd(m) == Len(m.method) + 1 + Len(m.target) + 1 + Len(m.version) + 2

\* offset just past header line i of m (0: the start line)
RECURSIVE HeaderLineEnd(_, _)
HeaderLineEnd(m, i) ==
    IF i = 0 THEN StartLineEnd(m)
    ELSE HeaderLineEnd(m, i - 1) + Len(m.headers[i][1]) + 1 + Len(m.headers[i][2]) + 2

\* offset just past the blank line that ends the header section
BlankLineEnd(m) == HeaderLineEnd(m, Len(m.headers)) + 2

HasHeader(m, name) == \E i \in 1..Len(m.headers) : m.headers[i][1] = name

\* index of the first header line of m called name
FirstHeader(m, name) ==
    CHOOSE i \in 1..Len(m.headers) :
        /\ m.headers[i][1] = name
        /\ \A j \in 1..(i - 1) : m.headers[j][1] # name

\* the value of header line i without leading and trailing whitespace
TrimmedValue(m, i) ==
    LET v == m.headers[i][2]
        t == trim_whitespace(v, 0, Len(v))
    IN  SubSeq(v, t[1] + 1, t[2])

\* the header map a message stands for
RECURSIVE HeaderMap(_)
HeaderMap(headers) ==
    IF headers = <<>> THEN <<>>
    ELSE map_insert(HeaderMap(DropLast(headers)),
                    headers[Len(headers)][1], headers[Len(headers)][2])

\* C8: the parser is resumable: once all bytes of the message have been
\* received and body() has been called over them, the units hold the same
\* method, target, version, headers, body offset and error flag as a parse
\* of the whole message in one call, however the message was cut before;
\* and the context is not discarded because the available input ended: it
\* is gone only when the body has been reached or the whole message is there
C8_Resumable ==
    h1Pc = "units" =>
      /\ (h1Last.op = "body" /\ h1Last.avail = Len(h1Msg))
            => SameResult(h1Units, WholeParse(h1Msg))
      /\ h1Units.build_context = None
            => (h1Units.body > 0 \/ h1Avail = Len(h1Msg))

\* C9: a header_value(name) call that runs the parser stops at the end of
\* the line of the first header called name when that line has been
\* received: the value is returned, the context is kept and no later header
\* is recorded; when the message has no such header and the blank line has
\* been received, the parser stops no later than the end of the blank line
C9_HeaderValueStops ==
    (h1Pc = "units" /\ h1Last.op = "header_value" /\ h1Last.ran) =>
      IF HasHeader(h1Src, h1Last.name)
      THEN LET i == FirstHeader(h1Src, h1Last.name)
           IN  HeaderLineEnd(h1Src, i) <= h1Last.avail =>
                 /\ h1Last.value = Some(TrimmedValue(h1Src, i))
                 /\ h1Last.stop <= HeaderLineEnd(h1Src, i)
                 /\ h1Units.build_context # None
                 /\ DOMAIN h1Units.headers \subseteq { h1Src.headers[j][1] : j \in 1..i }
      ELSE BlankLineEnd(h1Src) <= h1Last.avail => h1Last.stop <= BlankLineEnd(h1Src)

\* C10: parsing the bytes packed from a request gives back its method,
\* target, version, headers and body with the error flag unset, and parsing
\* the bytes exported from a response gives back its version, status code
\* and reason with no error recorded
C10_ParseOfPack ==
    /\ h1Pc = "request" =>
         LET p == Unwrap(h1Rt)
         IN  /\ p.method = h1Src.method
             /\ p.target = h1Src.target
             /\ p.version = h1Src.version
             /\ p.headers = HeaderMap(h1Src.headers)
             /\ p.body = h1Src.body
             /\ ~p.err
    /\ h1Pc = "response" =>
         LET p == Unwrap(h1Rt)
         IN  /\ p.version_vec = h1Src.version
             /\ p.status_code_vec = h1Src.status_code
             /\ p.reason = h1Src.reason
             /\ ~p.err

\* "GET"
H1MethodGet == <<71, 69, 84>>

\* "/"
H1TargetRoot == <<47>>

\* the header map a message stands for, each value trimmed of SP / HTAB
RECURSIVE TrimmedHeaderMap(_, _)
TrimmedHeaderMap(m, i) ==
    IF i = 0 THEN <<>>
    ELSE map_insert(TrimmedHeaderMap(m, i - 1), m.headers[i][1], TrimmedValue(m, i))

\* the header values of the units, read from the buffer
UnitsHeaderValues(u, buf) ==
    [k \in DOMAIN u.headers |-> SubSeq(buf, u.headers[k][1] + 1, u.headers[k][2])]

\* C11: for a request whose start line is GET / HTTP/1.1, new_request_units
\* over bytes holding the whole start line reports method GET, target / and
\* version HTTP/1.1 with no error, and the parse of the whole message
\* records every header with its trimmed value and sets no error
C11_StartLineParsed ==
    (/\ h1Pc = "units"
     /\ h1Src.method = H1MethodGet /\ h1Src.target = H1TargetRoot
     /\ h1Src.version = VERSION) =>
      /\ (h1Last.op = "new" /\ h1Last.avail >= StartLineEnd(h1Src)) =>
            /\ h1Units.method = H1MethodGet
            /\ h1Units.target = H1TargetRoot
            /\ h1Units.version = VERSION
            /\ ~h1Units.err
      /\ LET w == WholeParse(h1Msg)
         IN  /\ UnitsHeaderValues(w, h1Msg) = TrimmedHeaderMap(h1Src, Len(h1Src.headers))
             /\ ~w.err

\* v without its leading and trailing SP / HTAB
RECURSIVE StripWs(_)
StripWs(v) ==
    IF v = <<>> THEN <<>>
    ELSE IF is_whitespace(v[1]) THEN StripWs(Tail(v))
    ELSE IF is_whitespace(v[Len(v)]) THEN StripWs(DropLast(v))
    ELSE v

\* C12: every header value the units return is the recorded value without
\* its leading and trailing SP / HTAB: it neither starts nor ends with SP or
\* HTAB, and a value made only of SP / HTAB is returned empty
C12_ValuesTrimmed ==
    h1Pc = "units" =>
      \A k \in DOMAIN h1Units.headers :
        LET v == UnitsHeaderValues(h1Units, H1Buf)[k]
        IN  /\ v = StripWs(h1Src.headers[FirstHeader(h1Src, k)][2])
            /\ v # <<>> => (~is_whitespace(v[1]) /\ ~is_whitespace(v[Len(v)]))
-----------------------------------------------------------------------------
(* The error flag of the HTTP/1.1 parser: messages with bytes out of place, *)
(* received in one or two pieces.                                           *)

\* The message grammar, read off the message format and not off the parser:
\* request-line is method SP target SP version CR LF with a version token of
\* letters, digits, "." and "/"; status-line is version SP code SP reason
\* CR LF; a header line is name ":" value CR LF; a blank line CR LF ends the
\* header section; a bare LF ends no line; the body is free. GrammarStep is
\* the place in the message after byte b at place g, "bad" when b cannot
\* stand at g
GrammarStep(g, b) ==
    CASE g = "method0" -> IF is_ascii_alphabetic(b) THEN "method" ELSE "bad"
      [] g = "method" -> IF is_ascii_alphabetic(b) THEN "method"
                         ELSE IF b = SPACE THEN "target0" ELSE "bad"
      [] g = "target0" -> IF is_ascii_graphic(b) THEN "target" ELSE "bad"
      [] g = "target" -> IF is_ascii_graphic(b) THEN "target"
                         ELSE IF b = SPACE THEN "version0" ELSE "bad"
      [] g = "version0" -> IF is_ascii_alphanumeric(b) THEN "version" ELSE "bad"
      [] g = "version" -> IF is_ascii_alphanumeric(b) \/ b = DOT \/ b = SLASH THEN "version"
                          ELSE IF b = CR THEN "line_lf" ELSE "bad"
      [] g = "status_version0" -> IF is_ascii_alphanumeric(b) THEN "status_version" ELSE "bad"
      [] g = "status_version" ->
            IF is_ascii_alphanumeric(b) \/ b = DOT \/ b = SLASH THEN "status_version"
            ELSE IF b = SPACE THEN "code0" ELSE "bad"
      [] g = "code0" -> IF is_ascii_digit(b) THEN "code" ELSE "bad"
      [] g = "code" -> IF is_ascii_digit(b) THEN "code"
                       ELSE IF b = SPACE THEN "text" ELSE "bad"
      [] g = "text" -> IF b = CR THEN "line_lf" ELSE IF b = LF THEN "bad" ELSE "text"
      [] g = "line_lf" -> IF b = LF THEN "line" ELSE "bad"
      [] g = "line" -> IF is_ascii_alphabetic(b) THEN "name"
                       ELSE IF b = CR THEN "blank_lf" ELSE "bad"
      [] g = "name" -> IF is_ascii_alphanumeric(b) \/ b = HYPHEN THEN "name"
                       ELSE IF b = COLON THEN "text" ELSE "bad"
      [] g = "blank_lf" -> IF b = LF THEN "body" ELSE "bad"
      [] g = "body" -> "body"
      [] OTHER -> "bad"

\* the place in the message after the bytes s, from place g
RECURSIVE GrammarRun(_, _)
GrammarRun(g, s) == IF s = <<>> THEN g ELSE GrammarRun(GrammarStep(g, Head(s)), Tail(s))

\* do the first n bytes of msg hold a byte out of place, for a message that
\* starts at place g
OutOfPlace(g, msg, n) == GrammarRun(g, SubSeq(msg, 1, n)) = "bad"

VARIABLES
    errPc,       \* "idle", "request" or "response" while a parser is in use
    errMsg,      \* the whole message
    errAvail,    \* how many of its bytes have been received
    errFlag,     \* history: is_err() after each call
    errBad,      \* history: did any call so far consume a byte that is out of
                 \* place in the message
    errUnits     \* the RequestUnits (for a response, the context)

errVars == <<errPc, errMsg, errAvail, errFlag, errBad, errUnits>>

\* the number of bytes of a well-formed message replaced by other bytes
MaxErrEdits == 1

\* the number of calls after the first parse
MaxErrCalls == 2

\* "G / H1" CR LF "A:b" CR LF CR LF "xy"
ErrRequest == <<71, 32, 47, 32, 72, 49, 13, 10, 65, 58, 98, 13, 10, 13, 10, 120, 121>>

\* "H1 200 OK" CR LF "A:b" CR LF CR LF "x"
ErrResponse == <<72, 49, 32, 50, 48, 48, 32, 79, 75, 13, 10, 65, 58, 98, 13, 10, 13, 10, 120>>

\* "G / H/1" CR LF "A:b" CR LF CR LF "xy"
ErrRequestSlash == <<71, 32, 47, 32, 72, 47, 49, 13, 10, 65, 58, 98, 13, 10, 13, 10, 120, 121>>

\* "H/1 200 OK" CR LF "A:b" CR LF CR LF "x"
ErrResponseSlash == <<72, 47, 49, 32, 50, 48, 48, 32, 79, 75, 13, 10, 65, 58, 98, 13, 10, 13, 10, 120>>

\* NUL, LF, CR, SP, "/", "1", ":", "G"
ErrBytes == {0, 10, 13, 32, 47, 49, 58, 71}

RECURSIVE ErrEdited(_, _)
ErrEdited(msg, k) ==
    IF k = 0 THEN {msg}
    ELSE LET s == ErrEdited(msg, k - 1)
         IN  s \cup { [m EXCEPT ![p] = b] : m \in s, p \in 1..Len(msg), b \in ErrBytes }

ErrBuf == SubSeq(errMsg, 1, errAvail)

InitErr ==
    /\ errPc = "idle"
    /\ errMsg = <<>>
    /\ errAvail = 0
    /\ errFlag = <<>>
    /\ errBad = FALSE
    /\ errUnits = RequestUnitsNew

\* new_request_units over the bytes received so far
ErrNewRequestUnits ==
    /\ errPc = "idle"
    /\ \E msg \in ErrEdited(ErrRequest, MaxErrEdits) \cup ErrEdited(ErrRequestSlash, MaxErrEdits),
          k \in 0..Len(ErrRequestSlash) :
          LET buf == SubSeq(msg, 1, Min(k, Len(msg)))
              u == new_request_units(buf)
          IN  /\ errMsg' = msg
              /\ errAvail' = Min(k, Len(msg))
              /\ errUnits' = u
              /\ errBad' = OutOfPlace("method0", msg, UnitsBuildStop(RequestUnitsNew, None, buf))
              /\ errFlag' = <<u.err>>
    /\ errPc' = "request"

\* the rest of the message arrives
ErrReceive ==
    /\ errPc = "request"
    /\ errAvail < Len(errMsg)
    /\ errAvail' = Len(errMsg)
    /\ UNCHANGED <<errPc, errMsg, errFlag, errBad, errUnits>>

\* RequestUnits::header_value_index(name, buf)
ErrHeaderValue ==
    /\ errPc = "request"
    /\ Len(errFlag) <= MaxErrCalls
    /\ \E name \in {H1NameA, H1NameZ} :
          LET u == UnitsHeaderValueIndex(errUnits, name, ErrBuf)
          IN  /\ errUnits' = u
              /\ errBad' = (errBad \/ (UnitsHeaderBuilds(errUnits, name)
                                          /\ OutOfPlace("method0", errMsg,
                                                        UnitsBuildStop(errUnits, Some(name), ErrBuf))))
              /\ errFlag' = Append(errFlag, u.err)
    /\ UNCHANGED <<errPc, errMsg, errAvail>>

\* RequestUnits::body(buf)
ErrBody ==
    /\ errPc = "request"
    /\ Len(errFlag) <= MaxErrCalls
    /\ LET u == UnitsBody(errUnits, ErrBuf)
       IN  /\ errUnits' = u
           /\ errBad' = (errBad \/ (errUnits.body = 0 /\ errUnits.build_context # None
                                       /\ OutOfPlace("method0", errMsg,
                                                     UnitsBuildStop(errUnits, None, ErrBuf))))
           /\ errFlag' = Append(errFlag, u.err)
    /\ UNCHANGED <<errPc, errMsg, errAvail>>

\* H1ResponseUnits::new over a whole response
ErrNewResponseUnits ==
    /\ errPc = "idle"
    /\ \E msg \in ErrEdited(ErrResponse, MaxErrEdits) \cup ErrEdited(ErrResponseSlash, MaxErrEdits) :
          LET c == H1ResponseUnitsNew(msg)
          IN  /\ errMsg' = msg
              /\ errAvail' = Len(msg)
              /\ errUnits' = c
              /\ errBad' = OutOfPlace("status_version0", msg, c.n)
              /\ errFlag' = <<c.err>>
    /\ errPc' = "response"

NextErr ==
    \/ ErrNewRequestUnits
    \/ ErrReceive
    \/ ErrHeaderValue
    \/ ErrBody
    \/ ErrNewResponseUnits

\* C34: the error flag after a call is set exactly when a byte consumed so
\* far is out of place in the message, and once set it stays set over the
\* later calls.
C34_ErrorRecorded ==
    errPc # "idle" =>
        /\ errFlag[Len(errFlag)] = errBad
        /\ errUnits.err = errBad
        /\ \A i \in 1..Len(errFlag) : \A j \in i..Len(errFlag) : errFlag[i] => errFlag[j]
-----------------------------------------------------------------------------
(* The owning parser Request under header_value and body: request.rs.      *)

\* does this call of header_value run build
RequestHeaderBuilds(r, name) == name \notin DOMAIN r.headers /\ r.build_context # None

\* header_body!::header_value: the request afterwards
RequestHeaderValue(r, name) ==
    IF RequestHeaderBuilds(r, name)
    THEN RequestFromContext(r, accept_context([Unwrap(r.build_context) EXCEPT
                                                  !.search_header_name = Some(name)], r.bytes))
    ELSE r

\* self.headers.get(name)
RequestHeaderGet(r, name) == IF name \in DOMAIN r.headers THEN Some(r.headers[name]) ELSE None

VARIABLES
    reqPc,       \* "idle", "request" once to_request has run
    reqMsg,      \* the message the bytes stand for
    reqRequest,  \* the Request
    reqCalls     \* history: the header_value and body calls and what they returned

reqVars == <<reqPc, reqMsg, reqRequest, reqCalls>>

\* the number of header_value and body calls
MaxReqCalls == 3

InitReq ==
    /\ reqPc = "idle"
    /\ reqMsg = pack_request(<<>>, <<>>, <<>>, <<>>)
    /\ reqRequest = RequestNew(<<>>)
    /\ reqCalls = <<>>

ReqToRequest ==
    /\ reqPc = "idle"
    /\ \E m \in H1Requests :
          /\ reqMsg' = m
          /\ reqRequest' = to_request(pack(m))
    /\ reqPc' = "request"
    /\ UNCHANGED reqCalls

ReqHeaderValue ==
    /\ reqPc = "request"
    /\ Len(reqCalls) < MaxReqCalls
    /\ \E name \in H1Names :
          LET r == RequestHeaderValue(reqRequest, name)
          IN  /\ reqRequest' = r
              /\ reqCalls' = Append(reqCalls, [op |-> "header_value", name |-> name,
                                               value |-> RequestHeaderGet(r, name)])
    /\ UNCHANGED <<reqPc, reqMsg>>

ReqBody ==
    /\ reqPc = "request"
    /\ Len(reqCalls) < MaxReqCalls
    /\ LET r == RequestBody(reqRequest)
       IN  /\ reqRequest' = r
           /\ reqCalls' = Append(reqCalls, [op |-> "body", name |-> <<>>, value |-> Some(r.body)])
    /\ UNCHANGED <<reqPc, reqMsg>>

NextReq ==
    \/ ReqToRequest
    \/ ReqHeaderValue
    \/ ReqBody

\* one complete parse of the bytes: to_request, then body()
RequestWhole(m) == RequestBody(to_request(pack(m)))

\* C37: header_value calls in any order and then body() return, for every
\* header of the message, the trimmed value one complete parse gives, and
\* the same body.
C37_LookupsThenBody ==
    (/\ reqPc = "request"
     /\ reqCalls # <<>>
     /\ reqCalls[Len(reqCalls)].op = "body"
     /\ \A k \in 1..(Len(reqCalls) - 1) : reqCalls[k].op = "header_value")
        => /\ \A k \in 1..(Len(reqCalls) - 1) :
                 HasHeader(reqMsg, reqCalls[k].name)
                     => reqCalls[k].value = RequestHeaderGet(RequestWhole(reqMsg), reqCalls[k].name)
           /\ reqCalls[Len(reqCalls)].value = Some(RequestWhole(reqMsg).body)
           /\ \A name \in H1Names :
                 HasHeader(reqMsg, name)
                     => RequestHeaderGet(reqRequest, name) = RequestHeaderGet(RequestWhole(reqMsg), name)
-----------------------------------------------------------------------------
(* Specifications.                                                         *)

vars == <<tblVars, decVars, encVars, h1Vars, frmVars, repVars, intVars, idxVars, varVars, cutVars, insVars, pfxVars, sidVars, cntVars, bufVars, hufVars, errVars, h3fVars, reqVars, rdbVars, oobVars, ovfVars>>

Init == InitTbl /\ InitDec /\ InitEnc /\ InitH1 /\ InitFrm /\ InitRep /\ InitInt /\ InitIdx /\ InitVar /\ InitCut /\ InitIns /\ InitPfx /\ InitSid /\ InitCnt /\ InitBuf /\ InitHuf /\ InitErr /\ InitH3f /\ InitReq /\ InitRdb /\ InitOob /\ InitOvf

\* the two dynamic tables under add and capacity changes
SpecTbl == Init /\ [][NextTbl /\ UNCHANGED <<decVars, encVars, h1Vars, frmVars, repVars, intVars, idxVars, varVars, cutVars, insVars, pfxVars, sidVars, cntVars, bufVars, hufVars, errVars, h3fVars, reqVars, rdbVars, oobVars, ovfVars>>]_vars

\* the HPACK decoder helper fed field blocks
SpecDec == Init /\ [][NextDec /\ UNCHANGED <<encVars, h1Vars, frmVars, repVars, intVars, idxVars, varVars, cutVars, insVars, pfxVars, sidVars, cntVars, bufVars, hufVars, errVars, h3fVars, reqVars, rdbVars, oobVars, ovfVars>>]_vars

\* the HPACK encoder helper driven through its operations
SpecEnc == Init /\ [][NextEnc /\ UNCHANGED <<tblVars, decVars, h1Vars, frmVars, repVars, intVars, idxVars, varVars, cutVars, insVars, pfxVars, sidVars, cntVars, bufVars, hufVars, errVars, h3fVars, reqVars, rdbVars, oobVars, ovfVars>>]_vars

\* the HTTP/1.1 parser over a message received in pieces, and parse of pack
SpecH1 == Init /\ [][NextH1 /\ UNCHANGED <<tblVars, decVars, encVars, frmVars, repVars, intVars, idxVars, varVars, cutVars, insVars, pfxVars, sidVars, cntVars, bufVars, hufVars, errVars, h3fVars, reqVars, rdbVars, oobVars, ovfVars>>]_vars

\* the HTTP/2 frame encoders and FrameDecoder
SpecFrm == Init /\ [][NextFrm /\ UNCHANGED <<tblVars, decVars, encVars, h1Vars, repVars, intVars, idxVars, varVars, cutVars, insVars, pfxVars, sidVars, cntVars, bufVars, hufVars, errVars, h3fVars, reqVars, rdbVars, oobVars, ovfVars>>]_vars

\* FieldRep::encode then Instructions::decode
SpecRep == Init /\ [][NextRep /\ UNCHANGED <<tblVars, decVars, encVars, h1Vars, frmVars, intVars, idxVars, varVars, cutVars, insVars, pfxVars, sidVars, cntVars, bufVars, hufVars, errVars, h3fVars, reqVars, rdbVars, oobVars, ovfVars>>]_vars

\* encode_integer then decode_integer
SpecInt == Init /\ [][NextInt /\ UNCHANGED <<tblVars, decVars, encVars, h1Vars, frmVars, repVars, idxVars, varVars, cutVars, insVars, pfxVars, sidVars, cntVars, bufVars, hufVars, errVars, h3fVars, reqVars, rdbVars, oobVars, ovfVars>>]_vars

\* find_an_index over tables built by add
SpecIdx == Init /\ [][NextIdx /\ UNCHANGED <<tblVars, decVars, encVars, h1Vars, frmVars, repVars, intVars, varVars, cutVars, insVars, pfxVars, sidVars, cntVars, bufVars, hufVars, errVars, h3fVars, reqVars, rdbVars, oobVars, ovfVars>>]_vars

\* encode_u64 then decode_var
SpecVar == Init /\ [][NextVar /\ UNCHANGED <<tblVars, decVars, encVars, h1Vars, frmVars, repVars, intVars, idxVars, cutVars, insVars, pfxVars, sidVars, cntVars, bufVars, hufVars, errVars, h3fVars, reqVars, rdbVars, oobVars, ovfVars>>]_vars

\* the decoding primitives on input cut short
SpecCut == Init /\ [][NextCut /\ UNCHANGED <<tblVars, decVars, encVars, h1Vars, frmVars, repVars, intVars, idxVars, varVars, insVars, pfxVars, sidVars, cntVars, bufVars, hufVars, errVars, h3fVars, reqVars, rdbVars, oobVars, ovfVars>>]_vars

\* the QPACK encoder-stream helper fed encoder instructions
SpecIns == Init /\ [][NextIns /\ UNCHANGED <<tblVars, decVars, encVars, h1Vars, frmVars, repVars, intVars, idxVars, varVars, cutVars, pfxVars, sidVars, cntVars, bufVars, hufVars, errVars, h3fVars, reqVars, rdbVars, oobVars, ovfVars>>]_vars

\* FieldInstructions::prefix then the prefix part of FieldInstructions::decode
SpecPfx == Init /\ [][NextPfx /\ UNCHANGED <<tblVars, decVars, encVars, h1Vars, frmVars, repVars, intVars, idxVars, varVars, cutVars, insVars, sidVars, cntVars, bufVars, hufVars, errVars, h3fVars, reqVars, rdbVars, oobVars, ovfVars>>]_vars

\* stream identifier builders under next
SpecSid == Init /\ [][NextSid /\ UNCHANGED <<tblVars, decVars, encVars, h1Vars, frmVars, repVars, intVars, idxVars, varVars, cutVars, insVars, pfxVars, cntVars, bufVars, hufVars, errVars, h3fVars, reqVars, rdbVars, oobVars, ovfVars>>]_vars

\* the DATA frame helper under byte_slice and flush
SpecCnt == Init /\ [][NextCnt /\ UNCHANGED <<tblVars, decVars, encVars, h1Vars, frmVars, repVars, intVars, idxVars, varVars, cutVars, insVars, pfxVars, sidVars, bufVars, hufVars, errVars, h3fVars, reqVars, rdbVars, oobVars, ovfVars>>]_vars

\* BufWriteByte over an inner writer under put, put_repeat and put_all
SpecBuf == Init /\ [][NextBuf /\ UNCHANGED <<tblVars, decVars, encVars, h1Vars, frmVars, repVars, intVars, idxVars, varVars, cutVars, insVars, pfxVars, sidVars, cntVars, hufVars, errVars, h3fVars, reqVars, rdbVars, oobVars, ovfVars>>]_vars

\* encode_huffman then decode_huffman
SpecHuf == Init /\ [][NextHuf /\ UNCHANGED <<tblVars, decVars, encVars, h1Vars, frmVars, repVars, intVars, idxVars, varVars, cutVars, insVars, pfxVars, sidVars, cntVars, bufVars, errVars, h3fVars, reqVars, rdbVars, oobVars, ovfVars>>]_vars

\* the HTTP/1.1 parser over messages with bytes out of place
SpecErr == Init /\ [][NextErr /\ UNCHANGED <<tblVars, decVars, encVars, h1Vars, frmVars, repVars, intVars, idxVars, varVars, cutVars, insVars, pfxVars, sidVars, cntVars, bufVars, hufVars, h3fVars, reqVars, rdbVars, oobVars, ovfVars>>]_vars

\* the HTTP/3 frame encoders then FrameDecoder::decode
SpecH3f == Init /\ [][NextH3f /\ UNCHANGED <<tblVars, decVars, encVars, h1Vars, frmVars, repVars, intVars, idxVars, varVars, cutVars, insVars, pfxVars, sidVars, cntVars, bufVars, hufVars, errVars, reqVars, rdbVars, oobVars, ovfVars>>]_vars

\* the owning Request parser under header_value and body
SpecReq == Init /\ [][NextReq /\ UNCHANGED <<tblVars, decVars, encVars, h1Vars, frmVars, repVars, intVars, idxVars, varVars, cutVars, insVars, pfxVars, sidVars, cntVars, bufVars, hufVars, errVars, h3fVars, rdbVars, oobVars, ovfVars>>]_vars

\* H2ContentHelper::read_byte, turn by turn
SpecRdb == Init /\ [][NextRdb /\ UNCHANGED <<tblVars, decVars, encVars, h1Vars, frmVars, repVars, intVars, idxVars, varVars, cutVars, insVars, pfxVars, sidVars, cntVars, bufVars, hufVars, errVars, h3fVars, reqVars, oobVars, ovfVars>>]_vars

\* the h2 and h3 FrameDecoder::decode and the accessors on arbitrary slices
SpecOob == Init /\ [][NextOob /\ UNCHANGED <<tblVars, decVars, encVars, h1Vars, frmVars, repVars, intVars, idxVars, varVars, cutVars, insVars, pfxVars, sidVars, cntVars, bufVars, hufVars, errVars, h3fVars, reqVars, rdbVars, ovfVars>>]_vars

\* decode_integer on the 64-bit word over runs of continuation bytes
SpecOvf == Init /\ [][NextOvf /\ UNCHANGED <<tblVars, decVars, encVars, h1Vars, frmVars, repVars, intVars, idxVars, varVars, cutVars, insVars, pfxVars, sidVars, cntVars, bufVars, hufVars, errVars, h3fVars, reqVars, rdbVars, oobVars>>]_vars

\* read_byte runs on the caller's thread with nothing to wait for: a turn of
\* its loop that can be taken is taken
SpecRdbLive == SpecRdb /\ WF_vars(RdbTurn /\ UNCHANGED <<tblVars, decVars, encVars, h1Vars, frmVars, repVars, intVars, idxVars, varVars, cutVars, insVars, pfxVars, sidVars, cntVars, bufVars, hufVars, errVars, h3fVars, reqVars, oobVars, ovfVars>>)
============================================================================
